---- MODULE Spec2Model ----
(***************************************************************************)
(* Incident-broadcast orchestration of WalidNewaz/prompt-eng:              *)
(* Orchestrator.run_incident_broadcast / resume_approved_workflow, the     *)
(* reject route, the approval repository and PlanExecutor.execute.         *)
(*                                                                         *)
(* A request handler is one entry of reqs.  A handler runs from one        *)
(* suspension point to the next in one step.  The approval table is a      *)
(* database shared by every server process, and each repository call is    *)
(* one committed statement, so a decision handler's read (get) and its     *)
(* write (mark_approved / mark_rejected) are two steps.                    *)
(***************************************************************************)
EXTENDS Naturals, Sequences, FiniteSets, TLC

VARIABLES planner, db, reqs, writes, clock, fn, rt

vars == <<planner, db, reqs, writes, clock, fn, rt>>

-----------------------------------------------------------------------------
(* Bounds *)

MaxSteps == 2
MaxRequests == 3
MaxRetries == 1

-----------------------------------------------------------------------------
(* Tools, policy, required fields *)

ToolName == {"send_slack_message", "send_email", "request_missing_info"}

NoGroup == "None"

GroupLabels == {"g1", "g2"}

Requesters == {"demo_user_001"}

(* approved_by of the k-th request: every decision comes from another approver *)
Approver(k) ==
  CASE k = 1 -> "alice" [] k = 2 -> "bob" [] k = 3 -> "carol" [] OTHER -> "dave"

(* The table with an entry for request_missing_info too. *)
REQUIRED_FIELDS_OF_EVERY_TOOL ==
  [t \in ToolName |->
     CASE t = "send_slack_message" -> <<"channel", "text">>
       [] t = "send_email" -> <<"to", "subject", "body">>
       [] OTHER -> <<"missing_fields", "question">>]

REQUIRED_FIELDS ==
  [t \in ToolName |->
     CASE t = "send_slack_message" -> <<"channel", "text">>
       [] t = "send_email" -> <<"to", "subject", "body">>
       [] OTHER -> <<>>]

IncidentBroadcastPolicy ==
  [allowed_tools |-> {"send_slack_message", "send_email", "request_missing_info"},
   approval_required_tools |-> {"send_slack_message", "send_email"}]

(* evaluate_tool with its two checks in the other order: the approval set is
   looked at before the allowed set. *)
EvaluateToolApprovalFirst(policy, tool) ==
  IF tool \in policy.approval_required_tools
  THEN [outcome |-> "REQUIRE_APPROVAL", tool |-> tool]
  ELSE IF tool \notin policy.allowed_tools THEN [outcome |-> "DENY", tool |-> tool]
       ELSE [outcome |-> "ALLOW", tool |-> "None"]

EvaluateTool(policy, tool) ==
  IF tool \notin policy.allowed_tools THEN [outcome |-> "DENY", tool |-> tool]
  ELSE IF tool \in policy.approval_required_tools
       THEN [outcome |-> "REQUIRE_APPROVAL", tool |-> tool]
       ELSE [outcome |-> "ALLOW", tool |-> "None"]

(* evaluate_plan walking the action names from the last to the first. *)
EvaluatePlanReversed(policy, tools) ==
  [k \in 1..Len(tools) |-> EvaluateTool(policy, tools[Len(tools) + 1 - k])]

EvaluatePlan(policy, tools) ==
  [k \in 1..Len(tools) |-> EvaluateTool(policy, tools[k])]

-----------------------------------------------------------------------------
(* Plans the planner model may return *)

ArgChoices(t) ==
  CASE t = "send_slack_message" -> {{"channel", "text"}, {"channel"}}
    [] t = "send_email" -> {{"to", "subject", "body"}, {"to", "body"}}
    [] OTHER -> {{"missing_fields", "question"}, {}}

StepMenu ==
  { [name |-> t, arguments |-> a, parallel_group |-> g] :
      t \in ToolName, a \in UNION {ArgChoices(u) : u \in ToolName},
      g \in GroupLabels \cup {NoGroup} }

PlannedToolCall ==
  { s \in StepMenu : s.arguments \in ArgChoices(s.name) }

SeqsUpTo(S, n) == UNION { [1..k -> S] : k \in 0..n }

(* Group labels are opaque strings the code only tests for truthiness and
   equality, so of the plans that differ by a renaming of labels one is kept:
   the one that introduces g1 before g2. *)
LabelsInOrder(steps) ==
  \A k \in 1..Len(steps) :
    steps[k].parallel_group = "g2"
    => \E j \in 1..(k - 1) : steps[j].parallel_group = "g1"

PlanSet == { p \in SeqsUpTo(PlannedToolCall, MaxSteps) : LabelsInOrder(p) }

(* The action names of a plan with every repeated name dropped after its first
   occurrence. *)
ToolNamesDistinct(steps) ==
  LET first == { k \in 1..Len(steps) : \A j \in 1..(k - 1) : steps[j].name # steps[k].name }
      nth(i) == CHOOSE k \in first : Cardinality({ j \in first : j < k }) = i - 1
  IN [i \in 1..Cardinality(first) |-> steps[nth(i)].name]

ToolNames(steps) == [k \in 1..Len(steps) |-> steps[k].name]

-----------------------------------------------------------------------------
(* Readiness: runtime/readiness.py *)

(* The absent-field test looking at the first required field only. *)
AbsentFirstRequired(step) ==
  SelectSeq(SubSeq(REQUIRED_FIELDS[step.name], 1, 1), LAMBDA f : f \notin step.arguments)

Absent(step) ==
  SelectSeq(REQUIRED_FIELDS[step.name], LAMBDA f : f \notin step.arguments)

RECURSIVE MissingFields(_, _)
MissingFields(steps, missing) ==
  IF steps = <<>> THEN missing
  ELSE LET step == Head(steps)
           absent == Absent(step)
       IN MissingFields(Tail(steps),
             IF absent # <<>>
             THEN [missing EXCEPT ![step.name] = @ \o absent]
             ELSE missing)

NoMissing == [t \in ToolName |-> <<>>]

NoReadiness == [outcome |-> "None", missing_fields |-> NoMissing, reason |-> "None"]

evaluate_readiness(plan) ==
  LET missing == MissingFields(plan, NoMissing)
  IN IF missing # NoMissing
     THEN [outcome |-> "NEEDS_INPUT", missing_fields |-> missing,
           reason |-> "One or more steps are missing required inputs"]
     ELSE [outcome |-> "READY", missing_fields |-> NoMissing, reason |-> "None"]

-----------------------------------------------------------------------------
(* PlanExecutor: runtime/plan_executor.py *)

(* A Python call binds when it supplies every parameter the callee requires. *)
BindsKeywords(required, given) == required \subseteq given

(* _execute_parallel_group(self, *, trace_id, group_id, steps, policy) *)
ExecuteParallelGroupParams == {"trace_id", "group_id", "steps", "policy"}

(* execute: self._execute_parallel_group(trace_id=, steps=, policy=) *)
ExecuteParallelGroupCall == {"trace_id", "steps", "policy"}

ExecuteParallelGroupBinds ==
  BindsKeywords(ExecuteParallelGroupParams, ExecuteParallelGroupCall)

(* SecurityPolicy.assert_tool_allowed(self, tool, workflow), called as
   policy.assert_tool_allowed(step.name) *)
AssertToolAllowedParams == {"tool", "workflow"}

AssertToolAllowedCall == {"tool"}

AssertToolAllowedBinds ==
  BindsKeywords(AssertToolAllowedParams, AssertToolAllowedCall)

(* @staticmethod _sanitize_args(self, step), called as self._sanitize_args(step):
   the static method receives the step as `self` and nothing as `step`. *)
SanitizeArgsParams == {"self", "step"}

SanitizeArgsCall == {"self"}

SanitizeArgsBinds == BindsKeywords(SanitizeArgsParams, SanitizeArgsCall)

(* What harness.run_tool_call can do for one call. *)
ToolOutcomes == {"ok", "not_ok", "ToolExecutionError"}

NoExecutionRecord ==
  [name |-> "None", ok |-> FALSE, result |-> "None", parallel_group |-> NoGroup]

(* _execute_single_step as it would be with its calls bound and a second
   attempt after a ToolExecutionError. *)
ExecuteSingleStepRetrying(step, policy, outcome) ==
  IF step.name \notin policy.allowed_tools
  THEN [raised |-> "PolicyViolation", calls |-> 0, record |-> NoExecutionRecord]
  ELSE [raised |-> "None",
        calls |-> IF outcome = "ToolExecutionError" THEN 2 ELSE 1,
        record |-> [name |-> step.name,
                    ok |-> (outcome = "ok"),
                    result |-> IF outcome = "ToolExecutionError" THEN "error" ELSE outcome,
                    parallel_group |-> step.parallel_group]]

(* _execute_single_step: the exception it raises (or "None"), the number of
   harness calls it makes, and the record it returns. *)
ExecuteSingleStep(step, policy, outcome) ==
  IF ~AssertToolAllowedBinds
  THEN [raised |-> "TypeError", calls |-> 0, record |-> NoExecutionRecord]
  ELSE IF step.name \notin policy.allowed_tools
  THEN [raised |-> "PolicyViolation", calls |-> 0, record |-> NoExecutionRecord]
  ELSE IF ~SanitizeArgsBinds
  THEN [raised |-> "TypeError", calls |-> 0, record |-> NoExecutionRecord]
  ELSE [raised |-> "None", calls |-> 1,
        record |-> [name |-> step.name,
                    ok |-> (outcome = "ok"),
                    result |-> IF outcome = "ToolExecutionError" THEN "error" ELSE outcome,
                    parallel_group |-> step.parallel_group]]

(* _partition_steps, over the positions of the plan: the groups in first-seen
   order, each with its positions in plan order, and the ungrouped positions. *)
RECURSIVE PartitionFrom(_, _, _, _)
PartitionFrom(steps, k, grouped, sequential) ==
  IF k > Len(steps) THEN [grouped |-> grouped, sequential |-> sequential]
  ELSE LET g == steps[k].parallel_group
       IN IF g # NoGroup
          THEN IF \E j \in 1..Len(grouped) : grouped[j].group_id = g
               THEN PartitionFrom(steps, k + 1,
                      [j \in 1..Len(grouped) |->
                         IF grouped[j].group_id = g
                         THEN [grouped[j] EXCEPT !.steps = Append(@, k)]
                         ELSE grouped[j]],
                      sequential)
               ELSE PartitionFrom(steps, k + 1,
                      Append(grouped, [group_id |-> g, steps |-> <<k>>]),
                      sequential)
          ELSE PartitionFrom(steps, k + 1, grouped, Append(sequential, k))

PartitionSteps(steps) == PartitionFrom(steps, 1, <<>>, <<>>)

(* Position p once for each harness call made for it. *)
Repeat(p, n) == [i \in 1..n |-> p]

RECURSIVE Calls(_, _)
Calls(positions, counts) ==
  IF positions = <<>> THEN <<>>
  ELSE Repeat(Head(positions), Head(counts)) \o Calls(Tail(positions), Tail(counts))

(* The result of a run of steps: exception raised (or "None"), the records
   produced so far, the plan positions whose tool was called, in call order. *)
ExecResult(raised, records, calls) ==
  [raised |-> raised, records |-> records, calls |-> calls]

FirstRaised(results) ==
  LET bad == { i \in 1..Len(results) : results[i].raised # "None" }
  IN IF bad = {} THEN "None"
     ELSE results[CHOOSE i \in bad : \A j \in bad : i <= j].raised

(* _execute_parallel_group + _gather_preserve_order: every step of the group is
   started; gather returns the records in the order of the coroutine list, or
   raises the first exception while the other coroutines keep running. *)
ExecuteParallelGroup(steps, positions, policy, outcome) ==
  LET results == [i \in 1..Len(positions) |->
                    ExecuteSingleStep(steps[positions[i]], policy, outcome[positions[i]])]
      called == Calls(positions,
                  [i \in 1..Len(positions) |-> results[i].calls])
  IN ExecResult(FirstRaised(results),
                IF FirstRaised(results) = "None"
                THEN [i \in 1..Len(positions) |-> results[i].record]
                ELSE <<>>,
                called)

RECURSIVE RunSequential(_, _, _, _, _)
RunSequential(steps, positions, policy, outcome, acc) ==
  IF positions = <<>> THEN acc
  ELSE LET r == ExecuteSingleStep(steps[Head(positions)], policy, outcome[Head(positions)])
           calls == acc.calls \o Repeat(Head(positions), r.calls)
       IN IF r.raised # "None"
          THEN ExecResult(r.raised, acc.records, calls)
          ELSE RunSequential(steps, Tail(positions), policy, outcome,
                 ExecResult("None", Append(acc.records, r.record), calls))

RECURSIVE RunGroups(_, _, _, _, _)
RunGroups(steps, grouped, policy, outcome, acc) ==
  IF grouped = <<>> THEN acc
  ELSE IF ~ExecuteParallelGroupBinds
  THEN ExecResult("TypeError", acc.records, acc.calls)
  ELSE LET g == ExecuteParallelGroup(steps, Head(grouped).steps, policy, outcome)
       IN IF g.raised # "None"
          THEN ExecResult(g.raised, acc.records, acc.calls \o g.calls)
          ELSE RunGroups(steps, Tail(grouped), policy, outcome,
                 ExecResult("None", acc.records \o g.records, acc.calls \o g.calls))

(* PlanExecutor.execute *)
Execute(steps, policy, outcome) ==
  LET part == PartitionSteps(steps)
      phase1 == RunGroups(steps, part.grouped, policy, outcome,
                          ExecResult("None", <<>>, <<>>))
  IN IF phase1.raised # "None" THEN phase1
     ELSE RunSequential(steps, part.sequential, policy, outcome, phase1)

-----------------------------------------------------------------------------
(* Approval repository: domain/approval/repository.py *)

(* IncidentPlan.model_dump(): the plan as a dict *)
ModelDump(steps) == [intent |-> "incident_broadcast", steps |-> steps]

(* IncidentPlan.model_validate(): the steps of a dict that is a plan *)
ModelValidate(obj) == obj.steps

(* json.dumps of a plan dict: None is written as null *)
JsonDumps(obj) ==
  [intent |-> obj.intent,
   steps |-> [k \in 1..Len(obj.steps) |->
                [obj.steps[k] EXCEPT !.parallel_group = IF @ = NoGroup THEN "null" ELSE @]]]

(* json.loads of a plan text: null is read as None *)
JsonLoads(txt) ==
  [intent |-> txt.intent,
   steps |-> [k \in 1..Len(txt.steps) |->
                [txt.steps[k] EXCEPT !.parallel_group = IF @ = "null" THEN NoGroup ELSE @]]]

NoApproval ==
  [id |-> 0, trace_id |-> 0, workflow |-> "None", tool_name |-> <<>>,
   safe_user_request |-> "None", plan |-> ModelDump(<<>>), reason |-> "None",
   status |-> "None", requested_at |-> 0, requested_by |-> "None",
   decided_at |-> 0, decided_by |-> "None"]

(* create_pending keeping in the snapshot only the steps named in tool_name. *)
CreatePendingNamedStepsOnly(id, trace_id, workflow, tool_name, safe_user_request, plan, reason, requested_by, now) ==
  [id |-> id, trace_id |-> trace_id, workflow |-> workflow, tool_name |-> tool_name,
   safe_user_request |-> safe_user_request,
   plan |-> JsonDumps([plan EXCEPT !.steps =
                         SelectSeq(@, LAMBDA st :
                           \E k \in 1..Len(tool_name) : tool_name[k] = st.name)]),
   reason |-> reason,
   status |-> "PENDING", requested_at |-> now, requested_by |-> requested_by,
   decided_at |-> 0, decided_by |-> "None"]

(* create_pending: INSERT ... status 'PENDING' RETURNING *; the new row *)
CreatePending(id, trace_id, workflow, tool_name, safe_user_request, plan, reason, requested_by, now) ==
  [id |-> id, trace_id |-> trace_id, workflow |-> workflow, tool_name |-> tool_name,
   safe_user_request |-> safe_user_request, plan |-> JsonDumps(plan), reason |-> reason,
   status |-> "PENDING", requested_at |-> now, requested_by |-> requested_by,
   decided_at |-> 0, decided_by |-> "None"]

(* get: the entity built from the row; requested_by is not copied *)
Get(table, approval_id) ==
  [table[approval_id] EXCEPT !.plan = JsonLoads(@), !.requested_by = "None"]

(* mark_approved: UPDATE ... SET status, decided_at, decided_by WHERE id = :id *)
MarkApproved(row, approved_by, now) ==
  [row EXCEPT !.status = "APPROVED", !.decided_at = now, !.decided_by = approved_by]

(* mark_rejected with the status left out of the SET list. *)
MarkRejectedKeepsStatus(row, approved_by, reason, now) ==
  [row EXCEPT !.reason = reason, !.decided_at = now, !.decided_by = approved_by]

(* mark_rejected: UPDATE ... SET status, reason, decided_at, decided_by WHERE id = :id *)
MarkRejected(row, approved_by, reason, now) ==
  [row EXCEPT !.status = "REJECTED", !.reason = reason,
              !.decided_at = now, !.decided_by = approved_by]

-----------------------------------------------------------------------------
(* Request handlers *)

PlanOutputs ==
  {[shape |-> "invalid", steps |-> <<>>, groups |-> <<>>]} \cup
  {[shape |-> "normalized", steps |-> p, groups |-> <<>>] : p \in PlanSet}

-----------------------------------------------------------------------------
(* The planner's answer: the text of one model call, by what json.loads makes
   of it.  shape is "invalid" for text that is not JSON, "number" for a JSON
   scalar, "array" for a JSON list, "normalized" for an {intent, steps} object
   that is an IncidentPlan, "misvalidated" for an object without the key plan
   that is no IncidentPlan, and "grouped" for an object with the key plan;
   groups holds the value of that key. *)

StepKeys == {"tool", "parameters"}

(* The steps of a plan as the grouped shape writes them, the k-th without the
   key lacking (k = 0: every step with both keys) *)
GroupedSteps(p, k, lacking) ==
  [i \in 1..Len(p) |->
     [tool |-> p[i].name, parameters |-> p[i].arguments,
      parallel_group |-> p[i].parallel_group,
      keys |-> IF i = k THEN StepKeys \ {lacking} ELSE StepKeys]]

(* The groups of the grouped shape: each run of consecutive steps with one
   label is a group {parallel_group, steps: [{tool, parameters}]} *)
RECURSIVE GroupsOf(_)
GroupsOf(wire) ==
  IF wire = <<>> THEN <<>>
  ELSE LET label == wire[1].parallel_group
           n == CHOOSE m \in 1..Len(wire) :
                  /\ \A i \in 1..m : wire[i].parallel_group = label
                  /\ m = Len(wire) \/ wire[m + 1].parallel_group # label
       IN <<[parallel_group |-> label,
             steps |-> [i \in 1..n |-> [tool |-> wire[i].tool,
                                        parameters |-> wire[i].parameters,
                                        keys |-> wire[i].keys]]]>>
          \o GroupsOf(SubSeq(wire, n + 1, Len(wire)))

GroupedOutputs ==
  { [shape |-> "grouped", steps |-> <<>>, groups |-> GroupsOf(GroupedSteps(p, k, lacking))] :
      p \in PlanSet \ {<<>>}, k \in 0..MaxSteps, lacking \in StepKeys }

WireOutputs ==
  PlanOutputs \cup GroupedOutputs \cup
  { [shape |-> s, steps |-> <<>>, groups |-> <<>>] : s \in {"number", "array", "misvalidated"} }

NoParse == [raised |-> "None", steps |-> <<>>]

(* The steps of every group, in group order then step order *)
RECURSIVE GroupSteps(_)
GroupSteps(groups) ==
  IF groups = <<>> THEN <<>>
  ELSE [i \in 1..Len(groups[1].steps) |->
          [tool |-> groups[1].steps[i].tool, parameters |-> groups[1].steps[i].parameters,
           keys |-> groups[1].steps[i].keys, parallel_group |-> groups[1].parallel_group]]
       \o GroupSteps(Tail(groups))

(* normalize_plan: "plan" in raw; s["tool"], s["parameters"],
   group.get("parallel_group"); IncidentPlan.model_validate(raw) otherwise *)
NormalizePlan(raw) ==
  IF raw.shape = "number" THEN [NoParse EXCEPT !.raised = "TypeError"]
  ELSE IF raw.shape = "grouped"
  THEN LET flat == GroupSteps(raw.groups)
       IN IF \E i \in 1..Len(flat) : flat[i].keys # StepKeys
          THEN [NoParse EXCEPT !.raised = "KeyError"]
          ELSE [NoParse EXCEPT !.steps = [i \in 1..Len(flat) |->
                                            [name |-> flat[i].tool,
                                             arguments |-> flat[i].parameters,
                                             parallel_group |-> flat[i].parallel_group]]]
  ELSE IF raw.shape = "normalized" THEN [NoParse EXCEPT !.steps = raw.steps]
  ELSE [NoParse EXCEPT !.raised = "ValidationError"]

(* IncidentPlan.model_validate of the object json.loads returned *)
IncidentPlanModelValidate(raw) ==
  IF raw.shape = "normalized" THEN [NoParse EXCEPT !.steps = raw.steps]
  ELSE [NoParse EXCEPT !.raised = "ValidationError"]

(* What except (json.JSONDecodeError, ValidationError) catches *)
PlanInvalidCaught == {"JSONDecodeError", "ValidationError"}

(* run_incident_broadcast, parse and validate plan: json.loads, normalize_plan,
   IncidentPlan.model_validate(plan_obj) *)
ParsePlan(out) ==
  LET normalized == NormalizePlan(out)
      validated == IncidentPlanModelValidate(out)
      raised == IF out.shape = "invalid" THEN "JSONDecodeError"
                ELSE IF normalized.raised # "None" THEN normalized.raised
                ELSE validated.raised
  IN IF raised \in PlanInvalidCaught THEN [NoParse EXCEPT !.raised = "OrchestrationError"]
     ELSE IF raised # "None" THEN [NoParse EXCEPT !.raised = raised]
     ELSE validated

(* LLMPlanGenerator.generate: json.loads, normalize_plan,
   IncidentPlan.model_validate of the normalized plan *)
GeneratePlan(out) ==
  LET normalized == NormalizePlan(out)
      raised == IF out.shape = "invalid" THEN "JSONDecodeError" ELSE normalized.raised
  IN IF raised \in PlanInvalidCaught THEN [NoParse EXCEPT !.raised = "OrchestrationError"]
     ELSE IF raised # "None" THEN [NoParse EXCEPT !.raised = raised]
     ELSE normalized

NoResult ==
  [status |-> "None", approval_id |-> 0, tools |-> <<>>, missing_fields |-> NoMissing,
   trace_id |-> 0, records |-> <<>>]

NewRequest(kind, user, trace) ==
  [kind |-> kind, pc |-> "start", user |-> user, trace |-> trace, aid |-> 0,
   approval |-> NoApproval, plan |-> <<>>, log |-> <<>>, calls |-> <<>>,
   oracle |-> <<>>, executed |-> "None", exec_trace |-> 0, raised |-> "None",
   result |-> NoResult, records |-> <<>>, reason |-> "None", summary_text |-> "None"]

Fail(req, error) == [req EXCEPT !.pc = "error", !.raised = error]

Return(req, result) == [req EXCEPT !.pc = "done", !.result = result]

(* Message texts: policy.py, sanitize_user_text and sanitize_message.  A text
   is known by the length of text.strip(), by whether it has leading or
   trailing whitespace, by whether one of _INJECTION_PATTERNS matches in the
   part every bound keeps, and by whether it holds the replacement marker;
   present tells an argument the step carries from one it does not. *)

MAX_USER_CHARS == 4000

MAX_MESSAGE_CHARS == 2000

TextLengths == {0, MAX_MESSAGE_CHARS, MAX_MESSAGE_CHARS + 1, MAX_USER_CHARS, MAX_USER_CHARS + 1}

(* The length of the replacement marker, and of the shortest text an
   injection pattern matches (the word of the last pattern) *)
MARKER_CHARS == 43

MATCH_CHARS == 10

(* How many matches a text may hold in the part every bound keeps: none, one,
   or as many words as fit there with one space between them *)
MatchCounts(len) ==
  LET kept == IF len > MAX_MESSAGE_CHARS THEN MAX_MESSAGE_CHARS ELSE len
  IN {0, IF len >= MATCH_CHARS THEN 1 ELSE 0, (kept + 1) \div (MATCH_CHARS + 1)}

AbsentText ==
  [present |-> FALSE, len |-> 0, padded |-> FALSE, injection |-> FALSE, marked |-> FALSE,
   matches |-> 0, grown |-> 0]

MessageTexts ==
  UNION { { [present |-> TRUE, len |-> n, padded |-> p, injection |-> (m > 0),
             marked |-> FALSE, matches |-> m, grown |-> 0] :
              p \in BOOLEAN, m \in MatchCounts(n) } : n \in TextLengths }

(* text[:limit] + the ellipsis character when the text is longer than limit *)
Bound(len, limit) == IF len > limit THEN limit + 1 ELSE len

(* sanitize_user_text: strip, bound to _MAX_USER_CHARS, replace every match of
   an injection pattern by the marker; len is the length before the
   replacement and grown what the replacement adds to it *)
SanitizeUserText(text) ==
  [text EXCEPT !.padded = FALSE, !.len = Bound(text.len, MAX_USER_CHARS),
               !.grown = text.matches * (MARKER_CHARS - MATCH_CHARS),
               !.injection = FALSE, !.matches = 0,
               !.marked = text.marked \/ text.injection]

(* sanitize_message: strip, bound to _MAX_MESSAGE_CHARS *)
SanitizeMessage(text) ==
  [text EXCEPT !.padded = FALSE, !.len = Bound(text.len, MAX_MESSAGE_CHARS)]

SanitizedKeys == {"text", "subject", "body"}

NoTexts == [key \in SanitizedKeys |-> AbsentText]

(* The values a step may carry under the keys _sanitize_args looks at *)
StepTexts(step) ==
  LET carried(key) == IF key \in step.arguments THEN MessageTexts ELSE {AbsentText}
  IN { [text |-> a, subject |-> b, body |-> c] :
         a \in carried("text"), b \in carried("subject"), c \in carried("body") }

(* _sanitize_args: text of send_slack_message, subject and body of send_email *)
SanitizeArgs(step, texts) ==
  [key \in SanitizedKeys |->
     IF /\ texts[key].present
        /\ \/ step.name = "send_slack_message" /\ key = "text"
           \/ step.name = "send_email" /\ key \in {"subject", "body"}
     THEN SanitizeMessage(texts[key])
     ELSE texts[key]]

(* A direct call of evaluate_plan, evaluate_readiness or
   DefaultApprovalGate.evaluate: its arguments, the gate's repository, and
   what the call returned *)
NoCall ==
  [policy |-> IncidentBroadcastPolicy, steps |-> <<>>, table |-> <<>>, name |-> "None",
   count |-> 0,
   decisions |-> <<>>, readiness |-> NoReadiness, raised |-> "None",
   proceed |-> "None", response |-> NoResult,
   oracle |-> <<>>, calls |-> <<>>, records |-> <<>>,
   texts |-> NoTexts, sanitized |-> NoTexts]

(* The approval gate with its filter dropped: nothing is held for approval. *)
ApprovalNeededSkipped(decisions) == <<>>

ApprovalNeeded(decisions) ==
  SelectSeq(decisions, LAMBDA d : d.outcome = "REQUIRE_APPROVAL")

(* The deny check looking at the first decision only. *)
HasDenyFirstOnly(decisions) == decisions # <<>> /\ decisions[1].outcome = "DENY"

HasDeny(decisions) == \E k \in 1..Len(decisions) : decisions[k].outcome = "DENY"

(* resume_approved_workflow taking a trace id of its own, as
   run_incident_broadcast does with new_trace_id(). *)
ResumeNewTraceId(approval) == approval.trace_id + 1

(* resume_approved_workflow: trace_id=approval.trace_id *)
ResumeTraceId(approval) == approval.trace_id

(* resume_approved_workflow with its status check dropped. *)
AlreadyDecidedIgnored(approval) == FALSE

(* resume_approved_workflow: if approval.status != "PENDING": raise *)
AlreadyDecided(approval) == approval.status # "PENDING"

(* reject_workflow: if status != ApprovalStatus.PENDING.value: raise *)
CannotReject(approval) == approval.status # "PENDING"

(* The part run_incident_broadcast and resume_approved_workflow share: readiness
   check, PlanExecutor.execute, and the summarizer up to its model call. *)
(* The readiness check evaluated but its NEEDS_INPUT answer not acted on: the
   plan goes to PlanExecutor.execute whatever the answer. *)
ReadinessIgnoredExecuteSummarize(req, plan, trace_id, outcome) ==
  LET ex == Execute(plan, IncidentBroadcastPolicy, outcome)
      executed == [req EXCEPT !.plan = plan, !.log = @ \o <<"readiness", "execute">>,
                              !.calls = ex.calls, !.oracle = outcome,
                              !.exec_trace = trace_id,
                              !.executed = IF ex.raised = "None" THEN "returned"
                                           ELSE ex.raised]
  IN IF ex.raised # "None"
     THEN Fail(executed, ex.raised)
     ELSE [executed EXCEPT !.pc = "sum_llm", !.trace = trace_id,
                           !.records = ex.records, !.log = Append(@, "llm.summary")]

ReadinessExecuteSummarize(req, plan, trace_id, outcome) ==
  LET readiness == evaluate_readiness(plan)
      checked == [req EXCEPT !.plan = plan, !.log = Append(@, "readiness")]
      ex == Execute(plan, IncidentBroadcastPolicy, outcome)
      executed == [checked EXCEPT !.log = Append(@, "execute"), !.calls = ex.calls,
                                  !.oracle = outcome, !.exec_trace = trace_id,
                                  !.executed = IF ex.raised = "None" THEN "returned"
                                               ELSE ex.raised]
  IN IF readiness.outcome = "NEEDS_INPUT"
     THEN Return(checked, [NoResult EXCEPT !.status = "awaiting_user_input",
                                           !.missing_fields = readiness.missing_fields])
     ELSE IF ex.raised # "None"
     THEN Fail(executed, ex.raised)
     ELSE [executed EXCEPT !.pc = "sum_llm", !.trace = trace_id,
                           !.records = ex.records, !.log = Append(@, "llm.summary")]

(* run_incident_broadcast up to the planner's model call *)
StartBroadcast(user) ==
  /\ Len(reqs) < MaxRequests
  /\ reqs' = Append(reqs, [NewRequest("broadcast", user, Len(reqs) + 1)
                             EXCEPT !.pc = "plan_llm", !.log = <<"llm.plan">>])
  /\ UNCHANGED <<planner, db, writes, clock, fn, rt>>

(* run_incident_broadcast from the planner's answer to the next suspension *)
PlanReturned(r, outcome) ==
  /\ reqs[r].kind = "broadcast"
  /\ reqs[r].pc = "plan_llm"
  /\ LET req == reqs[r]
         parsed == ParsePlan(planner)
         plan == parsed.steps
         decisions == EvaluatePlan(IncidentBroadcastPolicy, ToolNames(plan))
         approval_needed == ApprovalNeeded(decisions)
         evaluated == [req EXCEPT !.plan = plan, !.log = Append(@, "policy.evaluate")]
         approval_id == Len(db) + 1
     IN IF parsed.raised # "None"
        THEN /\ reqs' = [reqs EXCEPT ![r] =
                           Fail(IF parsed.raised = "OrchestrationError"
                                THEN [req EXCEPT !.log = Append(@, "workflow.plan.invalid")]
                                ELSE req,
                                parsed.raised)]
             /\ UNCHANGED <<planner, db, writes, clock, fn, rt>>
        ELSE IF HasDeny(decisions)
        THEN /\ reqs' = [reqs EXCEPT ![r] = Fail(evaluated, "OrchestrationError")]
             /\ UNCHANGED <<planner, db, writes, clock, fn, rt>>
        ELSE IF approval_needed # <<>>
        THEN /\ db' = Append(db, CreatePending(approval_id, req.trace, "incident_broadcast",
                                 [k \in 1..Len(approval_needed) |-> approval_needed[k].tool],
                                 "safe_user_request", ModelDump(plan),
                                 "One or more tools require approval", req.user, clock + 1))
             /\ writes' = Append(writes, <<>>)
             /\ clock' = clock + 1
             /\ UNCHANGED <<planner, fn, rt>>
             /\ reqs' = [reqs EXCEPT ![r] =
                           Return([evaluated EXCEPT !.aid = approval_id,
                                                    !.log = Append(@, "create_pending")],
                                  [NoResult EXCEPT
                                     !.status = "approval_required",
                                     !.approval_id = approval_id,
                                     !.tools = [k \in 1..Len(approval_needed) |->
                                                  approval_needed[k].tool]])]
        ELSE /\ reqs' = [reqs EXCEPT ![r] =
                           ReadinessExecuteSummarize(evaluated, plan, req.trace, outcome)]
             /\ UNCHANGED <<planner, db, writes, clock, fn, rt>>

(* The summarizer's answer: the text of one model call, by what json.loads
   makes of it: "invalid" is not JSON, "array" a JSON list, "misvalidated" an
   object that is no IncidentSummary, "summary" an IncidentSummary *)
SummaryTexts == {"invalid", "array", "misvalidated", "summary"}

(* json.loads and IncidentSummary.model_validate in summarize *)
ParseSummary(text) ==
  IF text = "invalid" THEN "JSONDecodeError"
  ELSE IF text = "summary" THEN "None"
  ELSE "ValidationError"

(* What except (json.JSONDecodeError, ValidationError) catches in summarize *)
SummaryInvalidCaught == {"JSONDecodeError", "ValidationError"}

(* summarize returning the records with whatever the model answered. *)
SummaryReturnedUnvalidated(r, text) ==
  /\ reqs[r].pc = "sum_llm"
  /\ reqs' = [reqs EXCEPT ![r] =
                Return([@ EXCEPT !.summary_text = text],
                       [NoResult EXCEPT !.status = "completed",
                                        !.trace_id = reqs[r].trace,
                                        !.records = reqs[r].records])]
  /\ UNCHANGED <<planner, db, writes, clock, fn, rt>>

(* LLMWorkflowSummarizer.summarize from the model's answer to its return *)
SummaryReturned(r, text) ==
  /\ reqs[r].pc = "sum_llm"
  /\ LET req == [reqs[r] EXCEPT !.summary_text = text]
         raised == ParseSummary(text)
     IN reqs' = [reqs EXCEPT ![r] =
                   IF raised \in SummaryInvalidCaught
                   THEN Fail([req EXCEPT !.log = Append(@, "workflow.summary.invalid")],
                             "OrchestrationError")
                   ELSE IF raised # "None" THEN Fail(req, raised)
                   ELSE Return(req, [NoResult EXCEPT !.status = "completed",
                                                     !.trace_id = req.trace,
                                                     !.records = req.records])]
  /\ UNCHANGED <<planner, db, writes, clock, fn, rt>>

(* resume_approved_workflow: approval_repository.get and the status check *)
ResumeGet(approval_id, approved_by) ==
  /\ Len(reqs) < MaxRequests
  /\ approval_id \in 1..Len(db)
  /\ LET approval == Get(db, approval_id)
         req == [NewRequest("resume", approved_by, 0)
                   EXCEPT !.aid = approval_id, !.approval = approval, !.log = <<"get">>]
     IN reqs' = Append(reqs,
                  IF AlreadyDecided(approval)
                  THEN Fail(req, "OrchestrationError")
                  ELSE [req EXCEPT !.pc = "mark"])
  /\ UNCHANGED <<planner, db, writes, clock, fn, rt>>

(* resume_approved_workflow marking the approval only when readiness and
   PlanExecutor.execute have passed. *)
ResumeMarkAfterExecute(r, outcome) ==
  /\ reqs[r].kind = "resume"
  /\ reqs[r].pc = "mark"
  /\ LET req == reqs[r]
         ran == ReadinessExecuteSummarize(req, ModelValidate(req.approval.plan),
                                          ResumeTraceId(req.approval), outcome)
     IN IF ran.pc = "sum_llm"
        THEN /\ db' = [db EXCEPT ![req.aid] = MarkApproved(@, req.user, clock + 1)]
             /\ writes' = [writes EXCEPT ![req.aid] =
                             Append(@, [req |-> r, status |-> "APPROVED", by |-> req.user,
                                        at |-> clock + 1])]
             /\ clock' = clock + 1
             /\ reqs' = [reqs EXCEPT ![r] = [ran EXCEPT !.log = Append(@, "mark_approved")]]
             /\ UNCHANGED <<planner, fn, rt>>
        ELSE /\ reqs' = [reqs EXCEPT ![r] = ran]
             /\ UNCHANGED <<planner, db, writes, clock, fn, rt>>

(* resume_approved_workflow from mark_approved to the next suspension *)
ResumeMark(r, outcome) ==
  /\ reqs[r].kind = "resume"
  /\ reqs[r].pc = "mark"
  /\ LET req == reqs[r]
         marked == [req EXCEPT !.log = Append(@, "mark_approved")]
     IN /\ db' = [db EXCEPT ![req.aid] = MarkApproved(@, req.user, clock + 1)]
        /\ writes' = [writes EXCEPT ![req.aid] =
                        Append(@, [req |-> r, status |-> "APPROVED", by |-> req.user,
                                   at |-> clock + 1])]
        /\ clock' = clock + 1
        /\ reqs' = [reqs EXCEPT ![r] =
                      ReadinessExecuteSummarize(marked, ModelValidate(req.approval.plan),
                                                ResumeTraceId(req.approval), outcome)]
        /\ UNCHANGED <<planner, fn, rt>>

(* reject_workflow: approval_repository.get and the status check *)
RejectGet(approval_id, approved_by, reason) ==
  /\ Len(reqs) < MaxRequests
  /\ approval_id \in 1..Len(db)
  /\ LET approval == Get(db, approval_id)
         req == [NewRequest("reject", approved_by, 0)
                   EXCEPT !.aid = approval_id, !.approval = approval,
                          !.reason = reason, !.log = <<"get">>]
     IN reqs' = Append(reqs,
                  IF CannotReject(approval)
                  THEN Fail(req, "HTTPException")
                  ELSE [req EXCEPT !.pc = "mark"])
  /\ UNCHANGED <<planner, db, writes, clock, fn, rt>>

(* reject_workflow: mark_rejected and the response *)
RejectMark(r) ==
  /\ reqs[r].kind = "reject"
  /\ reqs[r].pc = "mark"
  /\ LET req == reqs[r]
     IN /\ db' = [db EXCEPT ![req.aid] = MarkRejected(@, req.user, req.reason, clock + 1)]
        /\ writes' = [writes EXCEPT ![req.aid] =
                        Append(@, [req |-> r, status |-> "REJECTED", by |-> req.user,
                                   at |-> clock + 1])]
        /\ clock' = clock + 1
        /\ reqs' = [reqs EXCEPT ![r] =
                      Return([req EXCEPT !.log = Append(@, "mark_rejected")],
                             [NoResult EXCEPT !.status = "EXECUTED",
                                              !.approval_id = req.aid])]
        /\ UNCHANGED <<planner, fn, rt>>

-----------------------------------------------------------------------------
(* Tool-call schemas (schemas.py), PromptToolHarness.run_tool_call
   (runtime/harness.py), build_repair_prompt (runtime/repair.py) *)

(* The fields each tool's argument model requires *)
ToolArgsRequired ==
  [t \in ToolName |->
     CASE t = "send_slack_message" -> {"channel", "text"}
       [] t = "send_email" -> {"to", "subject", "body"}
       [] OTHER -> {"missing_fields", "question"}]

(* The arguments of a tool-call payload: a dict or not, its keys, and whether
   every value passes its field's constraints (min_length, EmailStr) *)
NoArguments == [is_dict |-> FALSE, keys |-> {}, well_formed |-> FALSE]

ToolArguments(t) ==
  {NoArguments} \cup
  { [is_dict |-> TRUE, keys |-> a, well_formed |-> w] : a \in ArgChoices(t), w \in BOOLEAN }

NoRaw == [name |-> "None", arguments |-> NoArguments]

RawToolCalls ==
  {[name |-> "unknown_tool", arguments |-> [is_dict |-> TRUE, keys |-> {}, well_formed |-> TRUE]]}
  \cup UNION { { [name |-> t, arguments |-> a] : a \in ToolArguments(t) } : t \in ToolName }

NoError == [type |-> "None", message |-> "None"]

(* ToolCall.model_validate: the name is a ToolName and the arguments a dict *)
ValidateToolCallPayload(payload) ==
  IF payload.name \in ToolName /\ payload.arguments.is_dict
  THEN NoError
  ELSE [type |-> "ValidationError", message |-> "ToolCall"]

(* validate_tool_args: the tool's argument model accepts the arguments *)
ValidateToolArgs(tool_name, args) ==
  IF ToolArgsRequired[tool_name] \subseteq args.keys /\ args.well_formed
  THEN NoError
  ELSE [type |-> "ValidationError", message |-> "tool args"]

(* What the tool executor does with a call: a result payload with ok true or
   false, a payload of the wrong shape, or an exception *)
ExecutorOutcomes == {"ok", "not_ok", "bad_result", "raises"}

(* validate_tool_result: the tool's result model accepts the payload *)
ValidateToolResult(outcome) ==
  IF outcome \in {"ok", "not_ok"}
  THEN NoError
  ELSE [type |-> "ValidationError", message |-> "tool result"]

(* run_tool_call validating the envelope only: the arguments go to the
   executor unchecked. *)
RunToolCallBeforeEnvelopeOnly(raw_tool_call) ==
  IF ValidateToolCallPayload(raw_tool_call).type # "None"
  THEN [log |-> <<"validate_tool_call_payload">>,
        error |-> [type |-> "ToolExecutionError",
                   message |-> "Invalid tool call or arguments"]]
  ELSE [log |-> <<"validate_tool_call_payload", "validate_tool_args", "executor.execute">>,
        error |-> NoError]

(* run_tool_call up to the executor call: the events and the error raised *)
RunToolCallBefore(raw_tool_call) ==
  IF ValidateToolCallPayload(raw_tool_call).type # "None"
  THEN [log |-> <<"validate_tool_call_payload">>,
        error |-> [type |-> "ToolExecutionError",
                   message |-> "Invalid tool call or arguments"]]
  ELSE IF ValidateToolArgs(raw_tool_call.name, raw_tool_call.arguments).type # "None"
  THEN [log |-> <<"validate_tool_call_payload", "validate_tool_args">>,
        error |-> [type |-> "ToolExecutionError",
                   message |-> "Invalid tool call or arguments"]]
  ELSE [log |-> <<"validate_tool_call_payload", "validate_tool_args", "executor.execute">>,
        error |-> NoError]

(* run_tool_call from the executor's answer on *)
RunToolCallAfter(outcome) ==
  IF outcome = "raises"
  THEN [log |-> <<"executor.raised">>,
        error |-> [type |-> "ToolExecutionError", message |-> "Tool execution failed"]]
  ELSE IF ValidateToolResult(outcome).type # "None"
  THEN [log |-> <<"executor.returned", "validate_tool_result">>,
        error |-> [type |-> "ToolExecutionError",
                   message |-> "Invalid tool result payload"]]
  ELSE [log |-> <<"executor.returned", "validate_tool_result">>, error |-> NoError]

(* The texts the model may answer: JSON or not, an object or not, inside a
   Markdown fence or not *)
Fences == {"none", "json"}

OutputTexts ==
  { [fence |-> f, syntax |-> x, obj |-> NoRaw] : f \in Fences, x \in {"not_json", "array"} }
  \cup { [fence |-> f, syntax |-> "object", obj |-> raw] : f \in Fences, raw \in RawToolCalls }

NoText == [fence |-> "none", syntax |-> "None", obj |-> NoRaw]

(* _parse_json_object: strip the fence, json.loads, require a dict *)
ParseJsonObject(text) ==
  LET stripped == [text EXCEPT !.fence = "none"]
  IN IF stripped.syntax = "not_json"
     THEN [error |-> [type |-> "JSONDecodeError", message |-> "Expecting value"],
           obj |-> NoRaw]
     ELSE IF stripped.syntax # "object"
     THEN [error |-> [type |-> "ValueError",
                      message |-> "Model output must be a single JSON object."],
           obj |-> NoRaw]
     ELSE [error |-> NoError, obj |-> stripped.obj]

(* A prompt: the rendered template, or a repair prompt with its ERROR,
   INVALID OUTPUT, ATTEMPTS and ORIGINAL PROMPT sections; depth counts the
   repair prompts its ORIGINAL PROMPT section is wrapped in *)
NoPrompt ==
  [kind |-> "None", base |-> <<>>, depth |-> 0, error_message |-> "None",
   invalid_output_text |-> NoText, attempt |-> 0, max_retries |-> 0]

(* PromptRenderer.render of the notification template *)
Render(template, user_request) ==
  [NoPrompt EXCEPT !.kind = "rendered", !.base = <<template, user_request>>]

BuildRepairPromptParams ==
  {"original_prompt", "invalid_output_text", "error_message", "attempt", "max_retries"}

(* run_notification_router: build_repair_prompt(original_prompt=,
   invalid_output_text=, error_message=) *)
BuildRepairPromptCall == {"original_prompt", "invalid_output_text", "error_message"}

(* The call of build_repair_prompt taken to bind whatever it passes. *)
BuildRepairPromptAlwaysBinds == TRUE

BuildRepairPromptBinds == BindsKeywords(BuildRepairPromptParams, BuildRepairPromptCall)

BuildRepairPrompt(original_prompt, invalid_output_text, error_message, attempt, max_retries) ==
  [kind |-> "repair", base |-> original_prompt.base, depth |-> original_prompt.depth + 1,
   error_message |-> error_message, invalid_output_text |-> invalid_output_text,
   attempt |-> attempt + 1, max_retries |-> max_retries]

(* One run of run_notification_router, or one direct run_tool_call *)
NoRun ==
  [kind |-> "None", pc |-> "idle", max_retries |-> 0, attempt |-> 0,
   rendered |-> NoPrompt, current_prompt |-> NoPrompt, prompts |-> <<>>,
   outputs |-> <<>>, errors |-> <<>>, last_error |-> NoError, raised |-> "None",
   carried |-> NoError, returned |-> "None", raw |-> NoRaw, executor_calls |-> 0,
   answer |-> "None", log |-> <<>>]

-----------------------------------------------------------------------------
Init ==
  /\ planner \in PlanOutputs
  /\ db = <<>>
  /\ reqs = <<>>
  /\ writes = <<>>
  /\ clock = 0
  /\ fn = NoCall
  /\ rt = NoRun

(* The harness answers that matter to a plan: none when no step reaches the
   harness call. *)
ToolOracle(steps) ==
  IF \A k \in 1..Len(steps) :
       ExecuteSingleStep(steps[k], IncidentBroadcastPolicy, "ok").calls = 0
  THEN {[k \in 1..Len(steps) |-> "ok"]}
  ELSE [1..Len(steps) -> ToolOutcomes]

(* The same under any policy *)
ToolOracleUnder(policy, steps) ==
  IF \A k \in 1..Len(steps) : ExecuteSingleStep(steps[k], policy, "ok").calls = 0
  THEN {[k \in 1..Len(steps) |-> "ok"]}
  ELSE [1..Len(steps) -> ToolOutcomes]

At(pc) == { r \in 1..Len(reqs) : reqs[r].pc = pc }

Next ==
  \/ \E user \in Requesters : StartBroadcast(user)
  \/ \E r \in At("plan_llm") : \E outcome \in ToolOracle(ParsePlan(planner).steps) :
       PlanReturned(r, outcome)
  \/ \E r \in At("sum_llm"), text \in SummaryTexts : SummaryReturned(r, text)
  \/ \E a \in 1..Len(db), by \in {Approver(Len(reqs) + 1)} : ResumeGet(a, by)
  \/ \E r \in At("mark") : \E outcome \in ToolOracle(ModelValidate(reqs[r].approval.plan)) :
       ResumeMark(r, outcome)
  \/ \E a \in 1..Len(db), by \in {Approver(Len(reqs) + 1)} :
       RejectGet(a, by, "rejected by approver")
  \/ \E r \in At("mark") : RejectMark(r)

Spec == Init /\ [][Next]_vars

(* The same handlers on the planner answers that carry no parallel group: the
   group labels of a plan are read by PlanExecutor.execute only. *)
UngroupedPlans == { p \in PlanSet : \A k \in 1..Len(p) : p[k].parallel_group = NoGroup }

FlowOutputs ==
  {[shape |-> "invalid", steps |-> <<>>, groups |-> <<>>]} \cup
  {[shape |-> "normalized", steps |-> p, groups |-> <<>>] : p \in UngroupedPlans}

FlowInit ==
  /\ planner \in FlowOutputs
  /\ db = <<>>
  /\ reqs = <<>>
  /\ writes = <<>>
  /\ clock = 0
  /\ fn = NoCall
  /\ rt = NoRun

FlowSpec == FlowInit /\ [][Next]_vars

-----------------------------------------------------------------------------
(* Direct calls of the policy, readiness and approval-gate functions *)

(* SecurityPolicy(allowed_tools, approval_required_tools): any two sets *)
Policies ==
  [allowed_tools : SUBSET ToolName, approval_required_tools : SUBSET ToolName]

(* DefaultApprovalGate.evaluate creating one approval record for every step
   that needs approval. *)
GateEvaluatePerStep(table, trace_id, workflow, safe_user_request, steps, policy, user_id, now) ==
  LET decisions == EvaluatePlan(policy, ToolNames(steps))
      approval_needed == ApprovalNeeded(decisions)
      tools == [k \in 1..Len(approval_needed) |-> approval_needed[k].tool]
      rows == [k \in 1..Len(approval_needed) |->
                 CreatePending(Len(table) + k, trace_id, workflow, tools, safe_user_request,
                               ModelDump(steps), "One or more tools require approval.",
                               user_id, now)]
  IN IF HasDeny(decisions)
     THEN [raised |-> "OrchestrationError", proceed |-> "None", response |-> NoResult,
           table |-> table]
     ELSE IF approval_needed = <<>>
     THEN [raised |-> "None", proceed |-> "true", response |-> NoResult, table |-> table]
     ELSE [raised |-> "None", proceed |-> "false",
           response |-> [NoResult EXCEPT !.status = "approval_required",
                                         !.approval_id = Len(table) + 1, !.tools = tools],
           table |-> table \o rows]

(* DefaultApprovalGate.evaluate: deny check, filter, create_pending, result.
   The deny check and the filter are the ones run_incident_broadcast repeats
   inline. *)
GateEvaluate(table, trace_id, workflow, safe_user_request, steps, policy, user_id, now) ==
  LET decisions == EvaluatePlan(policy, ToolNames(steps))
      approval_needed == ApprovalNeeded(decisions)
      approval_id == Len(table) + 1
      tools == [k \in 1..Len(approval_needed) |-> approval_needed[k].tool]
  IN IF HasDeny(decisions)
     THEN [raised |-> "OrchestrationError", proceed |-> "None", response |-> NoResult,
           table |-> table]
     ELSE IF approval_needed = <<>>
     THEN [raised |-> "None", proceed |-> "true", response |-> NoResult, table |-> table]
     ELSE [raised |-> "None", proceed |-> "false",
           response |-> [NoResult EXCEPT !.status = "approval_required",
                                         !.approval_id = approval_id, !.tools = tools],
           table |-> Append(table,
                       CreatePending(approval_id, trace_id, workflow, tools,
                                     safe_user_request, ModelDump(steps),
                                     "One or more tools require approval.", user_id, now))]

CallEvaluatePlan ==
  /\ fn.name = "None"
  /\ fn' = [fn EXCEPT !.name = "evaluate_plan",
                      !.decisions = EvaluatePlan(fn.policy, ToolNames(fn.steps))]
  /\ UNCHANGED <<planner, db, reqs, writes, clock, rt>>

CallEvaluateReadiness ==
  /\ fn.name = "None"
  /\ fn' = [fn EXCEPT !.name = "evaluate_readiness",
                      !.readiness = evaluate_readiness(fn.steps)]
  /\ UNCHANGED <<planner, db, reqs, writes, clock, rt>>

CallGateEvaluate(user_id) ==
  /\ fn.name \in {"None", "evaluate"}
  /\ fn.count < MaxRequests
  /\ LET gate == GateEvaluate(fn.table, Len(fn.table) + 1, "incident_broadcast",
                              "safe_user_request", fn.steps, fn.policy, user_id,
                              Len(fn.table) + 1)
     IN fn' = [fn EXCEPT !.name = "evaluate", !.count = @ + 1, !.table = gate.table,
                         !.raised = gate.raised, !.proceed = gate.proceed,
                         !.response = gate.response]
  /\ UNCHANGED <<planner, db, reqs, writes, clock, rt>>

(* PlanExecutor.execute called with the plan and the policy *)
CallExecute(outcome) ==
  /\ fn.name = "None"
  /\ LET ex == Execute(fn.steps, fn.policy, outcome)
     IN fn' = [fn EXCEPT !.name = "execute", !.oracle = outcome, !.raised = ex.raised,
                         !.calls = ex.calls, !.records = ex.records]
  /\ UNCHANGED <<planner, db, reqs, writes, clock, rt>>

CallInit ==
  /\ planner = [shape |-> "invalid", steps |-> <<>>, groups |-> <<>>]
  /\ db = <<>>
  /\ reqs = <<>>
  /\ writes = <<>>
  /\ clock = 0
  /\ fn \in { [NoCall EXCEPT !.policy = policy, !.steps = steps] :
                policy \in Policies, steps \in PlanSet }
  /\ rt = NoRun

CallNext ==
  \/ CallEvaluatePlan
  \/ CallEvaluateReadiness
  \/ \E user_id \in Requesters : CallGateEvaluate(user_id)
  \/ \E outcome \in ToolOracleUnder(fn.policy, fn.steps) : CallExecute(outcome)

CallSpec == CallInit /\ [][CallNext]_vars

-----------------------------------------------------------------------------
(* Plan generation on every shape of the planner's answer *)

(* A direct call of LLMPlanGenerator.generate *)
CallGenerate ==
  /\ fn.name = "None"
  /\ LET generated == GeneratePlan(planner)
     IN fn' = [fn EXCEPT !.name = "generate", !.raised = generated.raised,
                         !.steps = generated.steps]
  /\ UNCHANGED <<planner, db, reqs, writes, clock, rt>>

WireInit ==
  /\ planner \in WireOutputs
  /\ db = <<>>
  /\ reqs = <<>>
  /\ writes = <<>>
  /\ clock = 0
  /\ fn = NoCall
  /\ rt = NoRun

WireNext ==
  \/ \E user \in Requesters : StartBroadcast(user)
  \/ \E r \in At("plan_llm") : \E outcome \in ToolOracle(ParsePlan(planner).steps) :
       PlanReturned(r, outcome)
  \/ \E r \in At("sum_llm"), text \in SummaryTexts : SummaryReturned(r, text)
  \/ CallGenerate

WireSpec == WireInit /\ [][WireNext]_vars

-----------------------------------------------------------------------------
(* Direct calls of the sanitizers on the arguments of one step *)

(* _sanitize_args(None, step): the static method with both parameters bound *)
CallSanitizeArgs ==
  /\ fn.name = "None"
  /\ fn' = [fn EXCEPT !.name = "sanitize_args",
                      !.sanitized = SanitizeArgs(fn.steps[1], fn.texts)]
  /\ UNCHANGED <<planner, db, reqs, writes, clock, rt>>

(* sanitize_user_text on each of the same texts *)
CallSanitizeUserText ==
  /\ fn.name = "None"
  /\ fn' = [fn EXCEPT !.name = "sanitize_user_text",
                      !.sanitized = [key \in SanitizedKeys |->
                                       IF fn.texts[key].present
                                       THEN SanitizeUserText(fn.texts[key])
                                       ELSE fn.texts[key]]]
  /\ UNCHANGED <<planner, db, reqs, writes, clock, rt>>

SanitizeInit ==
  /\ planner = [shape |-> "invalid", steps |-> <<>>, groups |-> <<>>]
  /\ db = <<>>
  /\ reqs = <<>>
  /\ writes = <<>>
  /\ clock = 0
  /\ fn \in UNION { { [NoCall EXCEPT !.steps = <<step>>, !.texts = texts] :
                          texts \in StepTexts(step) } : step \in PlannedToolCall }
  /\ rt = NoRun

SanitizeNext ==
  \/ CallSanitizeArgs
  \/ CallSanitizeUserText

SanitizeSpec == SanitizeInit /\ [][SanitizeNext]_vars

-----------------------------------------------------------------------------
(* run_notification_router and direct calls of run_tool_call *)

UserRequests == {"notify #alerts"}

(* run_notification_router: an attempt has failed with exc on the answer text *)
AttemptFailed(run, exc, text) ==
  LET failed == [run EXCEPT !.last_error = exc, !.errors = Append(@, exc)]
  IN IF run.attempt >= run.max_retries
     THEN [failed EXCEPT !.pc = "error", !.raised = "OrchestrationError",
                         !.carried = exc]
     ELSE IF ~BuildRepairPromptBinds
     THEN [failed EXCEPT !.pc = "error", !.raised = "TypeError"]
     ELSE LET repair == BuildRepairPrompt(run.rendered, text, exc.message,
                                          run.attempt, run.max_retries)
          IN [failed EXCEPT !.pc = "llm", !.attempt = @ + 1, !.current_prompt = repair,
                            !.prompts = Append(@, repair)]

(* run_notification_router up to its first model call *)
RouterStart(user_request, max_retries) ==
  /\ rt.kind = "None"
  /\ LET rendered == Render("notification/v1", user_request)
     IN rt' = [NoRun EXCEPT !.kind = "router", !.pc = "llm", !.max_retries = max_retries,
                            !.rendered = rendered, !.current_prompt = rendered,
                            !.prompts = <<rendered>>]
  /\ UNCHANGED <<planner, db, reqs, writes, clock, fn>>

(* run_notification_router from a model answer to the next suspension *)
RouterLlmReturned(text) ==
  /\ rt.kind = "router"
  /\ rt.pc = "llm"
  /\ LET received == [rt EXCEPT !.outputs = Append(@, text)]
         parsed == ParseJsonObject(text)
         envelope == ValidateToolCallPayload(parsed.obj)
         before == RunToolCallBefore(parsed.obj)
         entered == [received EXCEPT !.log = @ \o before.log, !.raw = parsed.obj]
     IN rt' = IF parsed.error.type # "None" THEN AttemptFailed(received, parsed.error, text)
              ELSE IF envelope.type # "None" THEN AttemptFailed(received, envelope, text)
              ELSE IF before.error.type # "None"
              THEN AttemptFailed(entered, before.error, text)
              ELSE [entered EXCEPT !.pc = "tool", !.executor_calls = @ + 1]
  /\ UNCHANGED <<planner, db, reqs, writes, clock, fn>>

(* run_notification_router from the tool executor's answer on *)
RouterToolReturned(outcome) ==
  /\ rt.kind = "router"
  /\ rt.pc = "tool"
  /\ LET after == RunToolCallAfter(outcome)
         left == [rt EXCEPT !.log = @ \o after.log, !.answer = outcome]
     IN rt' = IF after.error.type # "None"
              THEN AttemptFailed(left, after.error, rt.outputs[Len(rt.outputs)])
              ELSE [left EXCEPT !.pc = "done", !.returned = outcome]
  /\ UNCHANGED <<planner, db, reqs, writes, clock, fn>>

(* PromptToolHarness.run_tool_call up to the executor call *)
HarnessCall(raw_tool_call) ==
  /\ rt.kind = "None"
  /\ LET before == RunToolCallBefore(raw_tool_call)
         entered == [NoRun EXCEPT !.kind = "harness", !.raw = raw_tool_call,
                                  !.log = before.log]
     IN rt' = IF before.error.type # "None"
              THEN [entered EXCEPT !.pc = "error", !.raised = before.error.type,
                                   !.carried = before.error]
              ELSE [entered EXCEPT !.pc = "tool", !.executor_calls = @ + 1]
  /\ UNCHANGED <<planner, db, reqs, writes, clock, fn>>

(* PromptToolHarness.run_tool_call from the executor's answer on *)
HarnessToolReturned(outcome) ==
  /\ rt.kind = "harness"
  /\ rt.pc = "tool"
  /\ LET after == RunToolCallAfter(outcome)
         left == [rt EXCEPT !.log = @ \o after.log, !.answer = outcome]
     IN rt' = IF after.error.type # "None"
              THEN [left EXCEPT !.pc = "error", !.raised = after.error.type,
                                !.carried = after.error]
              ELSE [left EXCEPT !.pc = "done", !.returned = outcome]
  /\ UNCHANGED <<planner, db, reqs, writes, clock, fn>>

RouterInit ==
  /\ planner = [shape |-> "invalid", steps |-> <<>>, groups |-> <<>>]
  /\ db = <<>>
  /\ reqs = <<>>
  /\ writes = <<>>
  /\ clock = 0
  /\ fn = NoCall
  /\ rt = NoRun

RouterNext ==
  \/ \E user_request \in UserRequests, max_retries \in 0..MaxRetries :
       RouterStart(user_request, max_retries)
  \/ \E text \in OutputTexts : RouterLlmReturned(text)
  \/ \E outcome \in ExecutorOutcomes : RouterToolReturned(outcome)
  \/ \E raw_tool_call \in RawToolCalls : HarnessCall(raw_tool_call)
  \/ \E outcome \in ExecutorOutcomes : HarnessToolReturned(outcome)

RouterSpec == RouterInit /\ [][RouterNext]_vars

-----------------------------------------------------------------------------
(* External calls that fail: the model call of run_notification_router raising
   (httpx raises on a timeout and on an error status), next to the tool calls
   of the harness and of PlanExecutor.execute *)

(* llm.generate raises inside run_notification_router: the call stands before
   the try block *)
RouterLlmRaised ==
  /\ rt.kind = "router"
  /\ rt.pc = "llm"
  /\ rt' = [rt EXCEPT !.pc = "error", !.raised = "HTTPError",
                      !.log = Append(@, "llm.raised")]
  /\ UNCHANGED <<planner, db, reqs, writes, clock, fn>>

FaultInit ==
  /\ planner = [shape |-> "invalid", steps |-> <<>>, groups |-> <<>>]
  /\ db = <<>>
  /\ reqs = <<>>
  /\ writes = <<>>
  /\ clock = 0
  /\ fn \in { [NoCall EXCEPT !.steps = steps] : steps \in PlanSet }
  /\ rt = NoRun

FaultNext ==
  \/ RouterNext
  \/ RouterLlmRaised
  \/ \E outcome \in ToolOracleUnder(fn.policy, fn.steps) : CallExecute(outcome)

FaultSpec == FaultInit /\ [][FaultNext]_vars

-----------------------------------------------------------------------------
(* Properties of PlanExecutor.execute *)

Requests == 1..Len(reqs)

(* PlanExecutor.execute was called by request r and has ended *)
Ended(r) == reqs[r].executed # "None"

Returned(r) == reqs[r].executed = "returned"

Grouped(plan) == { k \in 1..Len(plan) : plan[k].parallel_group # NoGroup }

Ungrouped(plan) == { k \in 1..Len(plan) : plan[k].parallel_group = NoGroup }

LabelsOf(plan) == { plan[k].parallel_group : k \in Grouped(plan) }

FirstSeen(plan, g) ==
  CHOOSE k \in Grouped(plan) :
    /\ plan[k].parallel_group = g
    /\ \A j \in Grouped(plan) : plan[j].parallel_group = g => k <= j

CallIndex(calls, p) == { i \in 1..Len(calls) : calls[i] = p }

SameStep(record, step) ==
  /\ record.name = step.name
  /\ record.parallel_group = step.parallel_group

InInputOrder(records, plan) ==
  /\ Len(records) = Len(plan)
  /\ \A i \in 1..Len(plan) : SameStep(records[i], plan[i])

(* C1: when execute has ended on a plan whose steps all carry one non-null
   group label, it has returned a list whose i-th record is the outcome of
   the i-th input step (same action, same group label). *)
C1_OneGroupRecordsInInputOrder ==
  \A r \in Requests :
    (Ended(r) /\ reqs[r].plan # <<>> /\ Ungrouped(reqs[r].plan) = {}
       /\ Cardinality(LabelsOf(reqs[r].plan)) = 1)
    => (Returned(r) /\ InInputOrder(reqs[r].records, reqs[r].plan))

(* C2: when execute has ended on a plan of allowed actions, the tool was
   invoked for every step whatever the other steps' tool calls did, exactly
   one record per input step was returned, and every step whose tool call
   failed has a record with success=false and an error payload. *)
C2_FailedStepNeverStopsTheOthers ==
  \A r \in Requests :
    (Ended(r) /\ \A k \in 1..Len(reqs[r].plan) :
                   reqs[r].plan[k].name \in IncidentBroadcastPolicy.allowed_tools)
    => /\ Returned(r)
       /\ Len(reqs[r].records) = Len(reqs[r].plan)
       /\ \A k \in 1..Len(reqs[r].plan) : CallIndex(reqs[r].calls, k) # {}
       /\ Cardinality({ k \in 1..Len(reqs[r].plan) :
                          reqs[r].oracle[k] = "ToolExecutionError" })
            = Cardinality({ i \in 1..Len(reqs[r].records) :
                              /\ ~reqs[r].records[i].ok
                              /\ reqs[r].records[i].result = "error" })

(* C3: when execute has ended on a plan mixing grouped and ungrouped steps,
   every record of a grouped step precedes every record of an ungrouped step,
   the groups appear in the order their labels are first seen in the plan,
   and the records of one group keep plan order. *)
C3_GroupsFirstInFirstSeenOrder ==
  \A r \in Requests :
    LET plan == reqs[r].plan
        records == reqs[r].records
    IN (Ended(r) /\ Grouped(plan) # {} /\ Ungrouped(plan) # {})
       => /\ Returned(r)
          /\ Len(records) = Len(plan)
          /\ \A i, j \in 1..Len(records) :
               (records[i].parallel_group # NoGroup /\ records[j].parallel_group = NoGroup)
               => i < j
          /\ \A i, j \in 1..Len(records) :
               (/\ records[i].parallel_group # NoGroup
                /\ records[j].parallel_group # NoGroup
                /\ FirstSeen(plan, records[i].parallel_group)
                     < FirstSeen(plan, records[j].parallel_group))
               => i < j
          /\ \A g \in LabelsOf(plan) \cup {NoGroup} :
               LET of(q) == SelectSeq(q, LAMBDA x : x.parallel_group = g)
               IN /\ Len(of(records)) = Len(of(plan))
                  /\ \A i \in 1..Len(of(plan)) : SameStep(of(records)[i], of(plan)[i])

(* C4: when execute has ended on a plan with two or more groups, the groups
   have run one after another: every grouped step's tool call was started,
   and every call of a group first seen earlier precedes every call of a
   group first seen later. *)
C4_GroupsRunOneAfterAnother ==
  \A r \in Requests :
    LET plan == reqs[r].plan
        calls == reqs[r].calls
    IN (Ended(r) /\ Cardinality(LabelsOf(plan)) >= 2)
       => /\ \A k \in Grouped(plan) : CallIndex(calls, k) # {}
          /\ \A i, j \in 1..Len(calls) :
               (/\ calls[i] \in Grouped(plan)
                /\ calls[j] \in Grouped(plan)
                /\ FirstSeen(plan, plan[calls[i]].parallel_group)
                     < FirstSeen(plan, plan[calls[j]].parallel_group))
               => i < j

(* C5: when execute has ended on a plan with ungrouped steps, their tools were
   called after the calls of every grouped step, one at a time in plan order;
   for a plan with only ungrouped steps the returned records are in input
   order. *)
C5_SequentialTailInPlanOrder ==
  \A r \in Requests :
    LET plan == reqs[r].plan
        calls == reqs[r].calls
    IN (Ended(r) /\ Ungrouped(plan) # {})
       => /\ Returned(r)
          /\ \A k \in Ungrouped(plan) : CallIndex(calls, k) # {}
          /\ \A i, j \in 1..Len(calls) :
               (calls[i] \in Grouped(plan) /\ calls[j] \in Ungrouped(plan)) => i < j
          /\ \A i, j \in 1..Len(calls) :
               (calls[i] \in Ungrouped(plan) /\ calls[j] \in Ungrouped(plan)
                  /\ calls[i] < calls[j]) => i < j
          /\ Grouped(plan) = {} => InInputOrder(reqs[r].records, plan)

(* C6: within one execute call the tool gateway is invoked at most once for
   each input step. *)
C6_AtMostOneCallPerStep ==
  fn.name = "execute"
  => \A k \in 1..Len(fn.steps) : Cardinality(CallIndex(fn.calls, k)) <= 1

(* C6 witness: execute has ended on a plan of the longest length that has
   grouped and ungrouped steps *)
C6_Witness ==
  /\ fn.name = "execute"
  /\ Len(fn.steps) = MaxSteps
  /\ Grouped(fn.steps) # {}
  /\ Ungrouped(fn.steps) # {}

-----------------------------------------------------------------------------
(* Properties of the approval gate and of the decision on an approval *)

Has(log, ev) == \E i \in 1..Len(log) : log[i] = ev

Pos(log, ev) == CHOOSE i \in 1..Len(log) : log[i] = ev /\ \A j \in 1..(i - 1) : log[j] # ev

Times(log, ev) == Cardinality({ i \in 1..Len(log) : log[i] = ev })

RequiresApproval(plan) ==
  \E k \in 1..Len(plan) :
    /\ plan[k].name \in IncidentBroadcastPolicy.allowed_tools
    /\ plan[k].name \in IncidentBroadcastPolicy.approval_required_tools

WritesBy(r) ==
  { i \in 1..Len(writes[reqs[r].aid]) : writes[reqs[r].aid][i].req = r }

(* C7: a run_incident_broadcast whose plan has an action requiring approval
   returns approval_required without readiness check, PlanExecutor, tool call
   or summarizer; PlanExecutor (and so any tool call) runs on such a plan only
   inside a resume_approved_workflow that has already set the record to
   APPROVED. *)
C7_PausedRunExecutesNothing ==
  \A r \in Requests :
    LET req == reqs[r]
    IN /\ (req.kind = "broadcast" /\ Has(req.log, "policy.evaluate")
             /\ RequiresApproval(req.plan))
          => /\ req.pc = "done"
             /\ req.result.status = "approval_required"
             /\ ~Has(req.log, "readiness")
             /\ ~Has(req.log, "execute")
             /\ ~Has(req.log, "llm.summary")
             /\ req.calls = <<>>
       /\ ((Has(req.log, "execute") \/ req.calls # <<>>) /\ RequiresApproval(req.plan))
          => /\ req.kind = "resume"
             /\ Has(req.log, "mark_approved")
             /\ Pos(req.log, "mark_approved") < Pos(req.log, "execute")
             /\ \E i \in WritesBy(r) : writes[req.aid][i].status = "APPROVED"

(* C7 witness: a run paused with approval_required and a later resume of its
   approval reached PlanExecutor *)
C7_Witness ==
  \E r, q \in Requests :
    /\ reqs[r].kind = "broadcast"
    /\ reqs[r].result.status = "approval_required"
    /\ reqs[q].kind = "resume"
    /\ reqs[q].aid = reqs[r].aid
    /\ Has(reqs[q].log, "execute")

(* C8: of the decision attempts on one approval record only one succeeds in
   writing a status, and the stored plan is handed to PlanExecutor at most
   once. *)
C8_OnlyOneDecisionSucceeds ==
  \A a \in 1..Len(db) :
    /\ Len(writes[a]) <= 1
    /\ Cardinality({ r \in Requests : /\ reqs[r].kind = "resume"
                                      /\ reqs[r].aid = a
                                      /\ Has(reqs[r].log, "execute") }) <= 1

(* C9: a record is created PENDING, and once it is APPROVED or REJECTED no
   step changes its status again. *)
C9_DecidedRecordNeverChanges ==
  [][ /\ \A a \in 1..Len(db) :
           db[a].status \in {"APPROVED", "REJECTED"} => db'[a].status = db[a].status
      /\ \A a \in (Len(db) + 1)..Len(db') : db'[a].status = "PENDING" ]_vars

(* C10: a resume_approved_workflow that finds the approval APPROVED or
   REJECTED raises without mark, readiness check, execution or summary; one
   that finds it PENDING calls mark_approved exactly once, with its caller as
   decider, before readiness, execution and summary. *)
C10_ResumeChecksThenApprovesOnce ==
  \A r \in Requests :
    LET req == reqs[r]
    IN req.kind = "resume"
       => /\ req.approval.status \in {"APPROVED", "REJECTED"}
               => /\ req.pc = "error"
                  /\ req.raised = "OrchestrationError"
                  /\ req.log = <<"get">>
                  /\ WritesBy(r) = {}
          /\ (req.approval.status = "PENDING" /\ req.pc # "mark")
               => /\ Times(req.log, "mark_approved") = 1
                  /\ Cardinality(WritesBy(r)) = 1
                  /\ \A i \in WritesBy(r) :
                       /\ writes[req.aid][i].status = "APPROVED"
                       /\ writes[req.aid][i].by = req.user
                       /\ i = Len(writes[req.aid])
                            => /\ db[req.aid].status = "APPROVED"
                               /\ db[req.aid].decided_by = req.user
          /\ \A ev \in {"readiness", "execute", "llm.summary"} :
               Has(req.log, ev)
               => /\ Has(req.log, "mark_approved")
                  /\ Pos(req.log, "mark_approved") < Pos(req.log, ev)

(* C10 witness: one resume approved a PENDING record and reached PlanExecutor,
   and a later resume of the same record was refused *)
C10_Witness ==
  \E r, q \in Requests :
    /\ reqs[r].kind = "resume"
    /\ reqs[q].kind = "resume"
    /\ reqs[r].aid = reqs[q].aid
    /\ reqs[r].approval.status = "PENDING"
    /\ Has(reqs[r].log, "execute")
    /\ reqs[q].approval.status = "APPROVED"
    /\ reqs[q].pc = "error"

(* C11: a reject_workflow that found the approval PENDING writes REJECTED with
   its reason and does nothing else (no readiness check, no PlanExecutor, no
   summarizer); no request that reads the approval after that write hands the
   stored plan to PlanExecutor. *)
C11_RejectionEndsTheApproval ==
  \A r \in Requests :
    LET req == reqs[r]
    IN (req.kind = "reject" /\ Has(req.log, "mark_rejected"))
       => /\ req.log = <<"get", "mark_rejected">>
          /\ req.pc = "done"
          /\ req.calls = <<>>
          /\ req.executed = "None"
          /\ Cardinality(WritesBy(r)) = 1
          /\ \A i \in WritesBy(r) :
               /\ writes[req.aid][i].status = "REJECTED"
               /\ i = Len(writes[req.aid])
                    => /\ db[req.aid].status = "REJECTED"
                       /\ db[req.aid].reason = req.reason
                       /\ db[req.aid].decided_by = req.user
               /\ \A q \in Requests :
                    (/\ reqs[q].aid = req.aid
                     /\ q # r
                     /\ reqs[q].approval.decided_at >= writes[req.aid][i].at)
                    => /\ ~Has(reqs[q].log, "execute")
                       /\ reqs[q].calls = <<>>
                       /\ WritesBy(q) = {}

(* C11 witness: an approval was rejected and a resume that read it afterwards
   was refused *)
C11_Witness ==
  \E r, q \in Requests :
    /\ reqs[r].kind = "reject"
    /\ Has(reqs[r].log, "mark_rejected")
    /\ reqs[q].kind = "resume"
    /\ reqs[q].aid = reqs[r].aid
    /\ reqs[q].approval.status = "REJECTED"
    /\ reqs[q].pc = "error"

-----------------------------------------------------------------------------
(* Properties of the policy, readiness and approval-gate functions *)

Denied(policy, steps) ==
  { k \in 1..Len(steps) : steps[k].name \notin policy.allowed_tools }

NeedingApproval(policy, steps) ==
  { k \in 1..Len(steps) : /\ steps[k].name \in policy.allowed_tools
                          /\ steps[k].name \in policy.approval_required_tools }

(* C12: after any number of DefaultApprovalGate.evaluate calls on a plan with
   no denied action, the gate answered proceed=true and the repository is
   untouched when no step needs approval; it answered proceed=false and the
   repository holds exactly one PENDING record per call when some step does. *)
C12_GateWritesOneRecordOrNone ==
  (fn.name = "evaluate" /\ Denied(fn.policy, fn.steps) = {})
  => IF NeedingApproval(fn.policy, fn.steps) = {}
     THEN fn.proceed = "true" /\ fn.table = <<>>
     ELSE /\ fn.proceed = "false"
          /\ Len(fn.table) = fn.count
          /\ \A a \in 1..Len(fn.table) : fn.table[a].status = "PENDING"

(* C12 witness: the gate was called twice on a plan with two steps that need
   approval *)
C12_Witness ==
  /\ fn.name = "evaluate"
  /\ fn.count = 2
  /\ Denied(fn.policy, fn.steps) = {}
  /\ Cardinality(NeedingApproval(fn.policy, fn.steps)) = 2
  /\ Len(fn.table) = 2

(* C13: DefaultApprovalGate.evaluate on a plan with a denied action raises
   OrchestrationError, returns no outcome and creates no approval record,
   whatever the other actions of the plan are. *)
C13_DeniedActionAbortsTheGate ==
  (fn.name = "evaluate" /\ Denied(fn.policy, fn.steps) # {})
  => /\ fn.raised = "OrchestrationError"
     /\ fn.proceed = "None"
     /\ fn.response = NoResult
     /\ fn.table = <<>>

(* C13 witness: the gate raised on a plan with one denied action and one that
   needs approval *)
C13_Witness ==
  /\ fn.name = "evaluate"
  /\ fn.raised = "OrchestrationError"
  /\ Denied(fn.policy, fn.steps) # {}
  /\ NeedingApproval(fn.policy, fn.steps) # {}

(* C14: a run_incident_broadcast that returned approval_required returned the
   id of the record it created and the names of the steps needing approval in
   plan order; that record stores the same names, the run's trace id, the
   sanitized request and the whole plan, and until a decision is written it is
   PENDING with the gate's reason. *)
C14_PayloadAndRecordOfAPausedRun ==
  \A r \in Requests :
    LET req == reqs[r]
        needing == SelectSeq(ToolNames(req.plan),
                             LAMBDA t : /\ t \in IncidentBroadcastPolicy.allowed_tools
                                        /\ t \in IncidentBroadcastPolicy.approval_required_tools)
    IN (req.kind = "broadcast" /\ req.result.status = "approval_required")
       => /\ req.result.approval_id \in 1..Len(db)
          /\ req.result.tools = needing
          /\ LET row == db[req.result.approval_id]
             IN /\ row.id = req.result.approval_id
                /\ row.tool_name = needing
                /\ row.trace_id = req.trace
                /\ row.safe_user_request = "safe_user_request"
                /\ row.workflow = "incident_broadcast"
                /\ row.requested_by = req.user
                /\ JsonLoads(row.plan) = ModelDump(req.plan)
                /\ writes[req.result.approval_id] = <<>>
                     => /\ row.status = "PENDING"
                        /\ row.reason = "One or more tools require approval"
          /\ \A q \in Requests :
               (q # r /\ reqs[q].kind = "broadcast"
                  /\ reqs[q].result.status = "approval_required")
               => reqs[q].result.approval_id # req.result.approval_id

(* C14 witness: a run paused on a plan with a step that needs approval and a
   step that does not, and its approval is undecided *)
C14_Witness ==
  \E r \in Requests :
    /\ reqs[r].kind = "broadcast"
    /\ reqs[r].result.status = "approval_required"
    /\ \E k \in 1..Len(reqs[r].plan) : reqs[r].plan[k].name = "request_missing_info"
    /\ writes[reqs[r].result.approval_id] = <<>>

(* C15: when a resume_approved_workflow that approved a PENDING record has
   handed its plan to PlanExecutor, that plan is the one the paused run
   produced (same steps, order, arguments and group labels) and
   PlanExecutor has returned exactly one record per step of it. *)
C15_ResumeExecutesThePausedPlan ==
  \A r \in Requests :
    LET req == reqs[r]
    IN (req.kind = "resume" /\ Has(req.log, "execute"))
       => /\ \A b \in Requests :
               (reqs[b].kind = "broadcast" /\ reqs[b].aid = req.aid)
               => req.plan = reqs[b].plan
          /\ Returned(r)
          /\ Len(req.records) = Len(req.plan)
          /\ req.pc \in {"sum_llm", "done"}
          /\ req.pc = "done" => Len(req.result.records) = Len(req.plan)

(* C16: the trace id a resume_approved_workflow passes to PlanExecutor and to
   the summarizer, and the one in its completed outcome, is the trace id of
   the paused run as stored in the approval record. *)
C16_ResumeKeepsThePausedTraceId ==
  \A r \in Requests :
    LET req == reqs[r]
    IN req.kind = "resume"
       => /\ Has(req.log, "execute")
               => /\ req.exec_trace = db[req.aid].trace_id
                  /\ \A b \in Requests :
                       (reqs[b].kind = "broadcast" /\ reqs[b].aid = req.aid)
                       => req.exec_trace = reqs[b].trace
          /\ Has(req.log, "llm.summary") => req.trace = db[req.aid].trace_id
          /\ req.result.status = "completed" => req.result.trace_id = db[req.aid].trace_id

(* C16 witness: a resume has called PlanExecutor for the approval of a paused
   run *)
C16_Witness ==
  \E r, b \in Requests :
    /\ reqs[r].kind = "resume"
    /\ Has(reqs[r].log, "execute")
    /\ reqs[b].kind = "broadcast"
    /\ reqs[b].aid = reqs[r].aid
    /\ reqs[r].exec_trace = reqs[b].trace

(* C17: for every policy and every action of the evaluated plan, the decision
   is DENY iff the action is not in the allowed set, whatever the approval set
   holds; REQUIRE_APPROVAL iff it is in both sets; ALLOW iff it is in the
   allowed set and not in the approval set. *)
C17_DecisionFollowsTheTwoSets ==
  fn.name = "evaluate_plan"
  => \A k \in 1..Len(fn.decisions) :
       LET tool == fn.steps[k].name
           outcome == fn.decisions[k].outcome
           allowed == tool \in fn.policy.allowed_tools
           approval == tool \in fn.policy.approval_required_tools
       IN /\ outcome \in {"DENY", "REQUIRE_APPROVAL", "ALLOW"}
          /\ outcome = "DENY" <=> ~allowed
          /\ outcome = "REQUIRE_APPROVAL" <=> (allowed /\ approval)
          /\ outcome = "ALLOW" <=> (allowed /\ ~approval)

(* C17 witness: an action in the approval set but not in the allowed set was
   evaluated to DENY, next to an action in both sets *)
C17_Witness ==
  /\ fn.name = "evaluate_plan"
  /\ \E k, j \in 1..Len(fn.decisions) :
       /\ fn.steps[k].name \notin fn.policy.allowed_tools
       /\ fn.steps[k].name \in fn.policy.approval_required_tools
       /\ fn.decisions[k].outcome = "DENY"
       /\ fn.steps[j].name \in fn.policy.allowed_tools
       /\ fn.steps[j].name \in fn.policy.approval_required_tools
       /\ fn.decisions[j].outcome = "REQUIRE_APPROVAL"

(* C18: evaluate_plan returns as many decisions as it was given action names,
   the k-th decision being evaluate_tool of the k-th name. *)
C18_OneDecisionPerOccurrenceInOrder ==
  fn.name = "evaluate_plan"
  => /\ Len(fn.decisions) = Len(fn.steps)
     /\ \A k \in 1..Len(fn.steps) :
          fn.decisions[k] = EvaluateTool(fn.policy, fn.steps[k].name)

(* C18 witness: a plan of two different actions with different decisions, and
   the decisions in the order of the actions *)
C18_Witness ==
  /\ fn.name = "evaluate_plan"
  /\ Len(fn.steps) = 2
  /\ Len(fn.decisions) = 2
  /\ fn.steps[1].name # fn.steps[2].name
  /\ fn.decisions[1].outcome = "REQUIRE_APPROVAL"
  /\ fn.decisions[1].tool = fn.steps[1].name
  /\ fn.decisions[2].outcome = "DENY"
  /\ fn.decisions[2].tool = fn.steps[2].name

Occurrences(steps, t) == Cardinality({ k \in 1..Len(steps) : steps[k].name = t })

Entries(list, t) == Cardinality({ k \in 1..Len(list) : list[k] = t })

(* C19 as stated: evaluating a plan yields one decision per distinct action of
   the plan, and the approval-required list of a paused gate call has one
   entry per distinct action that needs approval. *)
C19_OneDecisionPerDistinctAction ==
  /\ fn.name = "evaluate_plan"
       => Len(fn.decisions) = Cardinality({ fn.steps[k].name : k \in 1..Len(fn.steps) })
  /\ (fn.name = "evaluate" /\ fn.proceed = "false")
       => Len(fn.response.tools)
            = Cardinality({ fn.steps[k].name : k \in NeedingApproval(fn.policy, fn.steps) })

(* C19 amended: evaluating a plan yields one decision per step that names the
   action, and the approval-required list of a paused gate call has one entry
   per step whose action needs approval: an action named by n steps has n
   decisions and, when it needs approval, n entries. *)
C19_OneDecisionPerStepOfAnAction ==
  /\ fn.name = "evaluate_plan"
       => /\ \A t \in ToolName :
               (t \notin fn.policy.allowed_tools \/ t \in fn.policy.approval_required_tools)
               => Cardinality({ k \in 1..Len(fn.decisions) : fn.decisions[k].tool = t })
                    = Occurrences(fn.steps, t)
          /\ Cardinality({ k \in 1..Len(fn.decisions) : fn.decisions[k].outcome = "ALLOW" })
               = Cardinality({ k \in 1..Len(fn.steps) :
                     /\ fn.steps[k].name \in fn.policy.allowed_tools
                     /\ fn.steps[k].name \notin fn.policy.approval_required_tools })
  /\ (fn.name = "evaluate" /\ fn.proceed = "false")
       => \A t \in ToolName :
            Entries(fn.response.tools, t)
              = IF t \in fn.policy.allowed_tools /\ t \in fn.policy.approval_required_tools
                THEN Occurrences(fn.steps, t)
                ELSE 0

(* C19 witness: the gate paused a plan whose two steps name the same action,
   and its approval-required list names that action twice *)
C19_Witness ==
  /\ fn.name = "evaluate"
  /\ fn.proceed = "false"
  /\ Len(fn.steps) = 2
  /\ fn.steps[1].name = fn.steps[2].name
  /\ fn.response.tools = <<fn.steps[1].name, fn.steps[1].name>>

FieldNames == UNION { { REQUIRED_FIELDS[t][i] : i \in 1..Len(REQUIRED_FIELDS[t]) } : t \in ToolName }

(* The (step, field) pairs of a plan where a step of action t lacks a field
   required for t *)
Lacking(steps, t) ==
  { sf \in (1..Len(steps)) \X FieldNames :
      /\ steps[sf[1]].name = t
      /\ \E i \in 1..Len(REQUIRED_FIELDS[t]) : REQUIRED_FIELDS[t][i] = sf[2]
      /\ sf[2] \notin steps[sf[1]].arguments }

(* C20: evaluate_readiness answers NEEDS_INPUT exactly when some step lacks a
   field required for its action; missing_fields then lists, for each action
   with such a step and for no other, the absent required fields of its
   steps, one entry per step and field, with the fixed reason; otherwise the
   answer is READY with no missing fields and no reason. *)
C20_ReadinessListsAbsentRequiredFields ==
  fn.name = "evaluate_readiness"
  => LET decision == fn.readiness
         lacks == \E t \in ToolName : Lacking(fn.steps, t) # {}
     IN /\ decision.outcome = "NEEDS_INPUT" <=> lacks
        /\ decision.outcome = "READY" <=> ~lacks
        /\ lacks
             => /\ decision.reason = "One or more steps are missing required inputs"
                /\ \A t \in ToolName :
                     LET listed == decision.missing_fields[t]
                     IN /\ { listed[i] : i \in 1..Len(listed) }
                             = { sf[2] : sf \in Lacking(fn.steps, t) }
                        /\ Len(listed) = Cardinality(Lacking(fn.steps, t))
        /\ ~lacks
             => /\ decision.missing_fields = NoMissing
                /\ decision.reason = "None"

(* C20 witness: a plan with a send_email step without subject next to a
   complete step was answered NEEDS_INPUT with send_email: [subject] *)
C20_Witness ==
  /\ fn.name = "evaluate_readiness"
  /\ Len(fn.steps) = 2
  /\ fn.steps[1].name = "send_slack_message"
  /\ Absent(fn.steps[1]) = <<>>
  /\ fn.steps[2].name = "send_email"
  /\ "subject" \notin fn.steps[2].arguments
  /\ fn.readiness.outcome = "NEEDS_INPUT"
  /\ fn.readiness.missing_fields = [NoMissing EXCEPT !["send_email"] = <<"subject">>]

-----------------------------------------------------------------------------
(* Properties of the readiness check inside the two workflows *)

LacksInput(plan) == \E t \in ToolName : Lacking(plan, t) # {}

(* C21: in run_incident_broadcast the readiness check comes after the policy
   evaluation and only when the approval gate created no record, in
   resume_approved_workflow after mark_approved; PlanExecutor.execute is
   called only after the readiness check; and a run whose plan lacks a
   required field has, once checked, returned awaiting_user_input with the
   missing fields, without PlanExecutor.execute and without any tool call. *)
C21_ReadinessBetweenApprovalAndExecution ==
  \A r \in Requests :
    LET req == reqs[r]
    IN /\ Has(req.log, "readiness")
            => IF req.kind = "broadcast"
               THEN /\ Has(req.log, "policy.evaluate")
                    /\ Pos(req.log, "policy.evaluate") < Pos(req.log, "readiness")
                    /\ ~Has(req.log, "create_pending")
               ELSE /\ Has(req.log, "mark_approved")
                    /\ Pos(req.log, "mark_approved") < Pos(req.log, "readiness")
       /\ Has(req.log, "execute")
            => /\ Has(req.log, "readiness")
               /\ Pos(req.log, "readiness") < Pos(req.log, "execute")
       /\ (Has(req.log, "readiness") /\ LacksInput(req.plan))
            => /\ req.pc = "done"
               /\ req.result.status = "awaiting_user_input"
               /\ \A t \in ToolName :
                    Len(req.result.missing_fields[t]) = Cardinality(Lacking(req.plan, t))
               /\ ~Has(req.log, "execute")
               /\ req.executed = "None"
               /\ req.calls = <<>>

(* C21 witness: an approved plan whose send_slack_message step has no text
   was resumed and returned awaiting_user_input *)
C21_Witness ==
  \E r \in Requests :
    /\ reqs[r].kind = "resume"
    /\ Has(reqs[r].log, "mark_approved")
    /\ Has(reqs[r].log, "readiness")
    /\ \E k \in 1..Len(reqs[r].plan) :
         /\ reqs[r].plan[k].name = "send_slack_message"
         /\ "text" \notin reqs[r].plan[k].arguments
    /\ reqs[r].result.status = "awaiting_user_input"
    /\ reqs[r].result.missing_fields["send_slack_message"] # <<>>

-----------------------------------------------------------------------------
(* Properties of run_notification_router and of run_tool_call *)

RouterEnded == rt.kind = "router" /\ rt.pc \in {"done", "error"}

RouterGaveUp == rt.kind = "router" /\ rt.pc = "error"

(* C22: run_notification_router calls the model at most max_retries+1 times
   and only after the previous answer has come back; a run that has ended
   with max_retries=0 has called it exactly once; a run that has ended in
   failure has made all its max_retries+1 attempts, each of which failed, and
   has raised the OrchestrationError. *)
C22_AttemptsAreMaxRetriesPlusOne ==
  /\ rt.kind = "router"
       => /\ Len(rt.prompts) <= rt.max_retries + 1
          /\ Len(rt.prompts) - Len(rt.outputs) \in {0, 1}
  /\ (RouterEnded /\ rt.max_retries = 0) => Len(rt.prompts) = 1
  /\ RouterGaveUp
       => /\ Len(rt.prompts) = rt.max_retries + 1
          /\ Len(rt.errors) = rt.max_retries + 1
          /\ rt.raised = "OrchestrationError"

(* C23: a run_notification_router that has ended in failure has raised
   OrchestrationError carrying the error of its last attempt, and has
   returned no tool result. *)
C23_ExhaustedRunRaisesOrchestrationError ==
  RouterGaveUp
  => /\ rt.raised = "OrchestrationError"
     /\ rt.errors # <<>>
     /\ rt.carried = rt.errors[Len(rt.errors)]
     /\ rt.returned = "None"

(* C24: after the i-th attempt has failed with attempts remaining, the next
   prompt sent is a repair prompt holding the rendered prompt itself, the raw
   answer of the i-th attempt and the i-th attempt's error text. *)
C24_RepairPromptEmbedsPromptOutputError ==
  rt.kind = "router"
  => \A i \in 1..Len(rt.errors) :
       i <= rt.max_retries
       => /\ Len(rt.prompts) >= i + 1
          /\ rt.prompts[i + 1].kind = "repair"
          /\ rt.prompts[i + 1].base = rt.rendered.base
          /\ rt.prompts[i + 1].depth = 1
          /\ rt.prompts[i + 1].invalid_output_text = rt.outputs[i]
          /\ rt.prompts[i + 1].error_message = rt.errors[i].message

ValidToolCall(raw) ==
  /\ raw.name \in ToolName
  /\ raw.arguments.is_dict
  /\ ToolArgsRequired[raw.name] \subseteq raw.arguments.keys
  /\ raw.arguments.well_formed

(* C30: run_tool_call validates the envelope and then the arguments before the
   executor is called; an invalid envelope or invalid arguments raise
   ToolExecutionError with the executor never called; the result is validated
   only once the executor has returned, and an invalid result raises
   ToolExecutionError too. *)
C30_HarnessValidatesBeforeAndAfter ==
  rt.kind = "harness"
  => /\ ~ValidToolCall(rt.raw)
          => /\ rt.pc = "error"
             /\ rt.raised = "ToolExecutionError"
             /\ rt.executor_calls = 0
             /\ ~Has(rt.log, "executor.execute")
     /\ Has(rt.log, "executor.execute")
          => /\ Has(rt.log, "validate_tool_call_payload")
             /\ Has(rt.log, "validate_tool_args")
             /\ Pos(rt.log, "validate_tool_call_payload") < Pos(rt.log, "validate_tool_args")
             /\ Pos(rt.log, "validate_tool_args") < Pos(rt.log, "executor.execute")
             /\ rt.executor_calls = 1
     /\ Has(rt.log, "validate_tool_result")
          => /\ Has(rt.log, "executor.returned")
             /\ Pos(rt.log, "executor.returned") < Pos(rt.log, "validate_tool_result")
     /\ rt.answer = "bad_result"
          => /\ rt.pc = "error"
             /\ rt.raised = "ToolExecutionError"
             /\ rt.returned = "None"
     /\ rt.pc = "done" => (ValidToolCall(rt.raw) /\ rt.returned \in {"ok", "not_ok"})

(* C30 witness: a send_email call whose arguments lack the subject was refused
   with ToolExecutionError before the executor was called *)
C30_Witness ==
  /\ rt.kind = "harness"
  /\ rt.raw.name = "send_email"
  /\ rt.raw.arguments.is_dict
  /\ "subject" \notin rt.raw.arguments.keys
  /\ rt.raised = "ToolExecutionError"
  /\ rt.executor_calls = 0

-----------------------------------------------------------------------------
(* Plan generation *)

(* The steps of a grouped answer by position: <<g, i>> is the i-th step of the
   g-th group *)
Places(groups) ==
  { pl \in (1..Len(groups)) \X (1..MaxSteps) : pl[2] <= Len(groups[pl[1]].steps) }

(* The rank of a place in group order then step order *)
Rank(groups, pl) ==
  Cardinality({ q \in Places(groups) : q[1] < pl[1] \/ (q[1] = pl[1] /\ q[2] <= pl[2]) })

WellFormed(out) ==
  \/ out.shape = "normalized"
  \/ /\ out.shape = "grouped"
     /\ \A pl \in Places(out.groups) : out.groups[pl[1]].steps[pl[2]].keys = StepKeys

(* steps is the plan the answer stands for *)
IsPlanOf(out, steps) ==
  IF out.shape = "normalized" THEN steps = out.steps
  ELSE /\ Len(steps) = Cardinality(Places(out.groups))
       /\ \A pl \in Places(out.groups) :
            steps[Rank(out.groups, pl)] =
              [name |-> out.groups[pl[1]].steps[pl[2]].tool,
               arguments |-> out.groups[pl[1]].steps[pl[2]].parameters,
               parallel_group |-> out.groups[pl[1]].parallel_group]

PlanAnswered(r) == reqs[r].kind = "broadcast" /\ reqs[r].pc # "plan_llm"

(* C25: a normalized {intent, steps} answer is taken as is and a grouped
   {plan: [{parallel_group, steps: [{tool, parameters}]}]} answer is flattened
   in group order then step order, each step with its group's label; in both
   cases generate returns that plan and the run goes on with it to the policy
   check. *)
C25_BothWireShapesReachThePolicyCheck ==
  WellFormed(planner)
  => /\ fn.name = "generate" => fn.raised = "None" /\ IsPlanOf(planner, fn.steps)
     /\ \A r \in 1..Len(reqs) :
          PlanAnswered(r)
          => /\ Has(reqs[r].log, "policy.evaluate")
             /\ IsPlanOf(planner, reqs[r].plan)

(* C26: an answer that is not JSON, not a JSON object, or not of a plan shape
   (a grouped step without its tool or parameters key included) fails with the
   plan-invalid OrchestrationError after one model call, and no policy
   evaluation, approval record, tool call or summary follows. *)
C26_InvalidPlanFailsOnceWithOrchestrationError ==
  ~WellFormed(planner)
  => /\ fn.name = "generate" => fn.raised = "OrchestrationError"
     /\ db = <<>>
     /\ \A r \in 1..Len(reqs) :
          /\ Times(reqs[r].log, "llm.plan") = 1
          /\ PlanAnswered(r)
             => /\ reqs[r].pc = "error"
                /\ reqs[r].raised = "OrchestrationError"
                /\ Has(reqs[r].log, "workflow.plan.invalid")
                /\ \A ev \in {"policy.evaluate", "create_pending", "execute", "llm.summary"} :
                     ~Has(reqs[r].log, ev)

-----------------------------------------------------------------------------
(* Summary *)

Summarized(r) == reqs[r].summary_text # "None"

(* C27: a summary answer that is not JSON or is no IncidentSummary ends the run
   with OrchestrationError after one summary call of the model: no second
   prompt, and no completed outcome for the caller. *)
C27_InvalidSummaryIsFatalAfterOneCall ==
  \A r \in 1..Len(reqs) :
    /\ Times(reqs[r].log, "llm.summary") <= 1
    /\ (Summarized(r) /\ reqs[r].summary_text # "summary")
       => /\ reqs[r].pc = "error"
          /\ reqs[r].raised = "OrchestrationError"
          /\ reqs[r].result = NoResult
          /\ Times(reqs[r].log, "llm.summary") = 1

C27_Witness ==
  \E r \in 1..Len(reqs) :
    /\ reqs[r].summary_text \in {"invalid", "misvalidated"}
    /\ reqs[r].pc = "error"
    /\ Has(reqs[r].log, "workflow.summary.invalid")

-----------------------------------------------------------------------------
(* Policy at execution time *)

(* C28: execute on a plan with a step whose action the policy does not allow
   raises PolicyViolation out of PlanExecutor.execute: no record is returned
   for the plan and the tool of the denied step is not invoked. *)
C28_DeniedStepRaisesPolicyViolation ==
  (fn.name = "execute" /\ Denied(fn.policy, fn.steps) # {})
  => /\ fn.raised = "PolicyViolation"
     /\ \A k \in Denied(fn.policy, fn.steps) : CallIndex(fn.calls, k) = {}

-----------------------------------------------------------------------------
(* Sanitization of outgoing messages *)

Messages(step) ==
  IF step.name = "send_slack_message" THEN {"text"} \cap step.arguments
  ELSE IF step.name = "send_email" THEN {"subject", "body"} \cap step.arguments
  ELSE {}

(* C29: the text, subject and body that _sanitize_args hands on for a
   send-message or send-email step, in a parallel group or not, are bounded
   in length and have every injection pattern replaced by the marker, as
   sanitize_user_text does. *)
C29_OutgoingTextsAreSanitized ==
  fn.name = "sanitize_args"
  => \A key \in Messages(fn.steps[1]) :
       /\ fn.sanitized[key].len <= MAX_USER_CHARS + 1
       /\ ~fn.sanitized[key].padded
       /\ ~fn.sanitized[key].injection
       /\ fn.texts[key].injection => fn.sanitized[key].marked

-----------------------------------------------------------------------------
(* Length of sanitized user text *)

(* The limit test_sanitize_user_text_bounds_length asserts *)
TestedLengthLimit == 5000

(* C31: whatever the input, with injection patterns in it or not, the text
   sanitize_user_text returns is shorter than the limit its test asserts. *)
C31_SanitizedUserTextIsBounded ==
  fn.name = "sanitize_user_text"
  => \A key \in SanitizedKeys :
       fn.texts[key].present
       => fn.sanitized[key].len + fn.sanitized[key].grown < TestedLengthLimit

-----------------------------------------------------------------------------
(* Failing external calls *)

FailedRecords(records) == { i \in 1..Len(records) : ~records[i].ok }

(* C32: a failing external call never escapes unclassified.  PlanExecutor.execute
   returns a record for every step, a failed one for every tool call that
   failed; a run_notification_router that has ended has returned or raised
   OrchestrationError, and when it raised, every one of its max_retries+1
   attempts has failed, a failing model call counting as a failed attempt. *)
C32_FailedCallsAreClassified ==
  /\ fn.name = "execute"
     => /\ fn.raised = "None"
        /\ Len(fn.records) = Len(fn.steps)
        /\ Cardinality(FailedRecords(fn.records))
             >= Cardinality({ k \in 1..Len(fn.steps) : fn.oracle[k] = "ToolExecutionError" })
  /\ RouterEnded
     => /\ rt.raised \in {"None", "OrchestrationError"}
        /\ rt.raised = "OrchestrationError" => Len(rt.errors) = rt.max_retries + 1

-----------------------------------------------------------------------------
(* Readiness under the built-in policy *)

Sends(plan) == { k \in 1..Len(plan) : plan[k].name \in {"send_slack_message", "send_email"} }

(* C33: run_incident_broadcast never returns awaiting_user_input.  A run whose
   plan has a send-message or send-email step pauses at the approval gate
   without a readiness check; a run whose plan has none is checked, found
   READY and handed to PlanExecutor.execute. *)
C33_BroadcastNeverAwaitsUserInput ==
  \A r \in Requests :
    LET req == reqs[r]
    IN req.kind = "broadcast"
       => /\ req.result.status # "awaiting_user_input"
          /\ (Has(req.log, "policy.evaluate") /\ Sends(req.plan) # {})
               => /\ Has(req.log, "create_pending")
                  /\ req.result.status = "approval_required"
                  /\ ~Has(req.log, "readiness")
          /\ (Has(req.log, "policy.evaluate") /\ Sends(req.plan) = {})
               => /\ Has(req.log, "readiness")
                  /\ Has(req.log, "execute")

(* C33 witness: a plan of one request_missing_info step without arguments was
   checked for readiness and handed to PlanExecutor.execute *)
C33_Witness ==
  \E r \in Requests :
    /\ reqs[r].kind = "broadcast"
    /\ Len(reqs[r].plan) >= 1
    /\ \A k \in 1..Len(reqs[r].plan) :
         /\ reqs[r].plan[k].name = "request_missing_info"
         /\ reqs[r].plan[k].arguments = {}
    /\ Has(reqs[r].log, "readiness")
    /\ Has(reqs[r].log, "execute")

-----------------------------------------------------------------------------
(* An approval is spent by the resume that approves it *)

Unfinished(req) ==
  \/ req.pc = "error"
  \/ req.pc = "done" /\ req.result.status = "awaiting_user_input"

(* C34: a resume that found the approval PENDING and ended without a completed
   outcome (awaiting_user_input, or an error of execution or summary) has
   written APPROVED before its readiness check, and the record is APPROVED
   unless another decision was written after it; every resume that read the
   record after that write was refused with OrchestrationError and ran
   nothing. *)
C34_UnfinishedResumeSpendsTheApproval ==
  \A r \in Requests :
    LET req == reqs[r]
    IN (req.kind = "resume" /\ req.approval.status = "PENDING" /\ Unfinished(req))
       => /\ \E i \in WritesBy(r) : writes[req.aid][i].status = "APPROVED"
          /\ Has(req.log, "readiness")
               => Pos(req.log, "mark_approved") < Pos(req.log, "readiness")
          /\ db[req.aid].status # "PENDING"
          /\ writes[req.aid][Len(writes[req.aid])].req = r => db[req.aid].status = "APPROVED"
          /\ \A q \in Requests :
               (reqs[q].kind = "resume" /\ reqs[q].aid = req.aid
                  /\ reqs[q].approval.status # "PENDING")
               => /\ reqs[q].pc = "error"
                  /\ reqs[q].raised = "OrchestrationError"
                  /\ ~Has(reqs[q].log, "execute")

(* C34 witness: a resume approved the record and failed in PlanExecutor.execute,
   and a second resume of the same approval was refused *)
C34_Witness ==
  \E r, q \in Requests :
    /\ reqs[r].kind = "resume"
    /\ reqs[q].kind = "resume"
    /\ reqs[r].aid = reqs[q].aid
    /\ reqs[r].approval.status = "PENDING"
    /\ Has(reqs[r].log, "execute")
    /\ reqs[r].pc = "error"
    /\ reqs[r].raised # "OrchestrationError"
    /\ db[reqs[r].aid].status = "APPROVED"
    /\ reqs[q].approval.status = "APPROVED"
    /\ reqs[q].raised = "OrchestrationError"

-----------------------------------------------------------------------------
(* Side effects of run_notification_router *)

ExecutorReturns == { i \in 1..Len(rt.log) : rt.log[i] = "executor.returned" }

(* C35: within one run_notification_router the tool executor returns at most
   once, and once it has returned no further prompt is sent to the model,
   whatever the validation of the returned result says. *)
C35_ExecutorCompletesAtMostOnce ==
  rt.kind = "router"
  => /\ Cardinality(ExecutorReturns) <= 1
     /\ rt.executor_calls <= 1
     /\ ExecutorReturns # {}
          => /\ rt.pc \in {"done", "error"}
             /\ Len(rt.prompts) = Len(rt.outputs)

(* C35 witness: the executor returned a result that failed validation on an
   attempt that had a retry left, and the run ended there *)
C35_Witness ==
  /\ rt.kind = "router"
  /\ rt.answer = "bad_result"
  /\ rt.attempt < rt.max_retries
  /\ rt.pc = "error"
  /\ Len(rt.prompts) = 1

-----------------------------------------------------------------------------
(* Abort on a denied step *)

(* C36: PlanExecutor.execute on a plan with a step the policy does not allow,
   in a later group, in the sequential tail or beside allowed steps of its own
   group, aborts with PolicyViolation, and no tool call of the plan has been
   started. *)
C36_PolicyViolationLeavesNoSideEffect ==
  (fn.name = "execute" /\ Denied(fn.policy, fn.steps) # {})
  => /\ fn.raised = "PolicyViolation"
     /\ fn.calls = <<>>

-----------------------------------------------------------------------------
(* Readiness against the argument schemas of the harness *)

(* The arguments of a planned step as the harness receives them, every value
   well formed *)
AsToolArguments(step) == [is_dict |-> TRUE, keys |-> step.arguments, well_formed |-> TRUE]

(* C37: when evaluate_readiness answers READY for a plan, validate_tool_args
   of the harness finds no required argument absent in any step of it,
   request_missing_info steps included. *)
C37_ReadyPlansPassArgumentValidation ==
  (fn.name = "evaluate_readiness" /\ fn.readiness.outcome = "READY")
  => \A k \in 1..Len(fn.steps) :
       ValidateToolArgs(fn.steps[k].name, AsToolArguments(fn.steps[k])).type = "None"

-----------------------------------------------------------------------------
(* What a decision leaves alone in an approval record *)

RequestColumns ==
  {"id", "trace_id", "workflow", "tool_name", "safe_user_request", "plan",
   "requested_by", "requested_at", "reason"}

(* C38: a step that changes an approval record leaves its id, trace id,
   workflow, tool names, sanitized request, plan snapshot, requester,
   requested-at and request reason as create_pending wrote them; approve and
   reject change nothing but the status, the decider and the decided-at. *)
C38_DecisionKeepsTheRequestColumns ==
  [][\A a \in 1..Len(db) : \A column \in RequestColumns : db'[a][column] = db[a][column]]_vars

-----------------------------------------------------------------------------
(* Termination. The event loop resumes a coroutine whenever the call it awaits
   has returned or raised, so with tool and model calls that end, a step that
   stays possible is taken: weak fairness on the steps of the router and on
   PlanExecutor.execute. *)

TerminationSpec ==
  /\ FaultInit
  /\ [][FaultNext]_vars
  /\ WF_vars(RouterNext \/ RouterLlmRaised)
  /\ WF_vars(\E outcome \in ToolOracleUnder(fn.policy, fn.steps) : CallExecute(outcome))

(* C39: with tool calls that all return or fail, PlanExecutor.execute on a
   plan of allowed steps eventually returns, having started as many tool calls
   as the plan has steps; and run_notification_router eventually returns or
   raises, never having made more than max_retries + 1 model calls. *)
C39_ExecuteAndRouterTerminate ==
  /\ (fn.name = "None" /\ Denied(fn.policy, fn.steps) = {})
       ~> (fn.name = "execute" /\ fn.raised = "None" /\ Len(fn.calls) = Len(fn.steps))
  /\ (rt.kind = "router") ~> (rt.pc \in {"done", "error"})
  /\ [](rt.kind = "router" => Len(rt.prompts) <= rt.max_retries + 1)

====
